---------------------------- MODULE Spec2Model ----------------------------
(***************************************************************************)
(* A model of the Bhagavad Gita question-answering core:                   *)
(*   - NameCorrector   (src/name_corrector.py, src/gita_characters.py)     *)
(*   - VerseIndexer    (QASystem.load_and_process_pdf, get_verse)          *)
(*   - DocumentMatcher (QASystem.get_relevant_documents)                   *)
(*   - answer_question (QASystem.answer_question and its helpers)          *)
(*   - TextCorrector   (src/text_utils.py, TextProcessor)                  *)
(* Python strings are TLA+ strings; they are taken apart with Len and      *)
(* SubSeq and put together with \o.  Python dicts are sequences of         *)
(* <<key, value>> pairs in insertion order.  Floats are exact fractions    *)
(* <<numerator, denominator>>.                                             *)
(***************************************************************************)
EXTENDS Integers, Sequences, FiniteSets, TLC

VARIABLES
    op,               \* the call whose result the state holds, "idle" between calls
    call_in,          \* the argument(s) of that call
    call_out,         \* the value that call returned
    pdf,              \* the pages of the PDF: the text extract_text() gives for each
    pc,               \* where load_and_process_pdf stands
    page_num,         \* load_and_process_pdf: page_num of the page loop
    lines,            \* load_and_process_pdf: the lines of the page being processed
    line_i,           \* load_and_process_pdf: i of the line loop
    current_chapter,  \* load_and_process_pdf: current_chapter
    current_verse,    \* load_and_process_pdf: current_verse
    verse_text,       \* load_and_process_pdf: verse_text
    verse_index,      \* QASystem.verse_index
    documents,        \* QASystem.documents
    common_words,     \* TextProcessor.common_words
    correction_map,   \* TextProcessor.correction_map
    map_file          \* the content of correction_map.json, <<>> when there is no such file

callVars == <<op, call_in, call_out>>
loadVars == <<pdf, pc, page_num, lines, line_i, current_chapter, current_verse, verse_text>>
textVars == <<common_words, correction_map, map_file>>
vars == <<op, call_in, call_out, pdf, pc, page_num, lines, line_i, current_chapter,
          current_verse, verse_text, verse_index, documents, common_words, correction_map,
          map_file>>

(***************************************************************************)
(*                          Python string helpers                          *)
(***************************************************************************)
LowerLetters == "abcdefghijklmnopqrstuvwxyz"
UpperLetters == "ABCDEFGHIJKLMNOPQRSTUVWXYZ"
Digits == "0123456789"

\* the characters of s, as a set
CharSet(s) == { SubSeq(s, i, i) : i \in 1..Len(s) }

LowerSet == CharSet(LowerLetters)
UpperSet == CharSet(UpperLetters)
DigitSet == CharSet(Digits)
\* str.isspace / regex \s on the characters the model uses
SpaceSet == {" ", "\n", "\t"}
\* regex \w
WordSet == LowerSet \cup UpperSet \cup DigitSet \cup {"_"}

Ch(s, i) == SubSeq(s, i, i)

\* the lower-case and the upper-case form of each ASCII letter
LowerOf ==
    "A" :> "a" @@ "B" :> "b" @@ "C" :> "c" @@ "D" :> "d" @@ "E" :> "e" @@ "F" :> "f" @@ "G" :> "g" @@
    "H" :> "h" @@ "I" :> "i" @@ "J" :> "j" @@ "K" :> "k" @@ "L" :> "l" @@ "M" :> "m" @@ "N" :> "n" @@
    "O" :> "o" @@ "P" :> "p" @@ "Q" :> "q" @@ "R" :> "r" @@ "S" :> "s" @@ "T" :> "t" @@ "U" :> "u" @@
    "V" :> "v" @@ "W" :> "w" @@ "X" :> "x" @@ "Y" :> "y" @@ "Z" :> "z"
UpperOf ==
    "a" :> "A" @@ "b" :> "B" @@ "c" :> "C" @@ "d" :> "D" @@ "e" :> "E" @@ "f" :> "F" @@ "g" :> "G" @@
    "h" :> "H" @@ "i" :> "I" @@ "j" :> "J" @@ "k" :> "K" @@ "l" :> "L" @@ "m" :> "M" @@ "n" :> "N" @@
    "o" :> "O" @@ "p" :> "P" @@ "q" :> "Q" @@ "r" :> "R" @@ "s" :> "S" @@ "t" :> "T" @@ "u" :> "U" @@
    "v" :> "V" @@ "w" :> "W" @@ "x" :> "X" @@ "y" :> "Y" @@ "z" :> "Z"

LowerCh(c) == IF c \in UpperSet THEN LowerOf[c] ELSE c
UpperCh(c) == IF c \in LowerSet THEN UpperOf[c] ELSE c

\* the characters a..b of s in lower case (the string is halved, to keep the
\* recursion shallow on long texts)
RECURSIVE MapLower(_, _, _)
MapLower(s, a, b) ==
    IF a > b THEN ""
    ELSE IF a = b THEN LowerCh(Ch(s, a))
    ELSE MapLower(s, a, (a + b) \div 2) \o MapLower(s, (a + b) \div 2 + 1, b)
\* str.lower
Lower(s) == MapLower(s, 1, Len(s))

RECURSIVE MapUpper(_, _, _)
MapUpper(s, a, b) ==
    IF a > b THEN ""
    ELSE IF a = b THEN UpperCh(Ch(s, a))
    ELSE MapUpper(s, a, (a + b) \div 2) \o MapUpper(s, (a + b) \div 2 + 1, b)
\* str.upper
Upper(s) == MapUpper(s, 1, Len(s))

\* s[i:] with a 1-based i
From(s, i) == SubSeq(s, i, Len(s))

\* str.capitalize: first character upper, the rest lower
Capitalize(s) == IF s = "" THEN "" ELSE UpperCh(Ch(s, 1)) \o Lower(From(s, 2))

\* str.islower / str.isupper: at least one cased character, none of the other case
IsLowerStr(s) == (\E i \in 1..Len(s) : Ch(s, i) \in LowerSet)
                 /\ (\A i \in 1..Len(s) : Ch(s, i) \notin UpperSet)
IsUpperStr(s) == (\E i \in 1..Len(s) : Ch(s, i) \in UpperSet)
                 /\ (\A i \in 1..Len(s) : Ch(s, i) \notin LowerSet)
\* str.isalpha
IsAlpha(s) == s # "" /\ \A i \in 1..Len(s) : Ch(s, i) \in LowerSet \cup UpperSet

\* str.strip / lstrip / rstrip
RECURSIVE LStrip(_)
LStrip(s) == IF s # "" /\ Ch(s, 1) \in SpaceSet THEN LStrip(From(s, 2)) ELSE s
RECURSIVE RStrip(_)
RStrip(s) == IF s # "" /\ Ch(s, Len(s)) \in SpaceSet THEN RStrip(SubSeq(s, 1, Len(s) - 1)) ELSE s
Strip(s) == RStrip(LStrip(s))

\* sub occurs in s at position i
MatchAt(sub, s, i) == i >= 1 /\ i + Len(sub) - 1 <= Len(s) /\ SubSeq(s, i, i + Len(sub) - 1) = sub
\* Python "sub in s"
Contains(sub, s) == \E i \in 1..(Len(s) - Len(sub) + 1) : MatchAt(sub, s, i)
StartsWith(s, pre) == MatchAt(pre, s, 1)
EndsWith(s, suf) == Len(suf) <= Len(s) /\ MatchAt(suf, s, Len(s) - Len(suf) + 1)

Min(a, b) == IF a <= b THEN a ELSE b
Max(a, b) == IF a >= b THEN a ELSE b

(***************************************************************************)
(*                     Python dict, in insertion order                     *)
(* (the loops that fill a dict test Len(d) >= 0 first: it is always true   *)
(* and makes TLC evaluate the dict built so far before it goes on)         *)
(***************************************************************************)
DictKeys(d) == { d[i][1] : i \in 1..Len(d) }
DictVals(d) == { d[i][2] : i \in 1..Len(d) }
DictHas(d, k) == \E i \in 1..Len(d) : d[i][1] = k
DictGet(d, k) == d[CHOOSE i \in 1..Len(d) : d[i][1] = k][2]
\* d[k] = v: an existing key keeps its place
DictIndex(d, k) == CHOOSE i \in 1..Len(d) : d[i][1] = k
DictSet(d, k, v) ==
    IF DictHas(d, k)
    THEN SubSeq(d, 1, DictIndex(d, k) - 1) \o << <<k, v>> >> \o SubSeq(d, DictIndex(d, k) + 1, Len(d))
    ELSE Append(d, <<k, v>>)

(***************************************************************************)
(*                    Exact fractions for Python floats                    *)
(***************************************************************************)
Frac(n, d) == <<n, d>>
FGe(a, b) == a[1] * b[2] >= b[1] * a[2]
FGt(a, b) == a[1] * b[2] > b[1] * a[2]
FLe(a, b) == FGe(b, a)
FEq(a, b) == a[1] * b[2] = b[1] * a[2]
FMul(a, b) == <<a[1] * b[1], a[2] * b[2]>>
FZero == Frac(0, 1)
FOne == Frac(1, 1)

None == "<None>"

\* An integer that may be absent (None, or an int() that raised ValueError) is
\* a sequence: <<n>> for the integer n, <<>> for none.
NoInt == <<>>


(***************************************************************************)
(*                 gita_characters.py: the character table                 *)
(***************************************************************************)
CHARACTERS ==
    <<
       [primary_name |-> "Krishna", aliases |-> <<"Krsna", "Govinda", "Madhava", "Hari", "Vasudeva", "Keshava", "Mukunda">>],
       [primary_name |-> "Arjuna", aliases |-> <<"Partha", "Dhananjaya", "Gudakesha", "Kaunteya", "Parantapa", "Bharata">>],
       [primary_name |-> "Yudhishthira", aliases |-> <<"Dharmaraja", "Ajatashatru", "Bharata", "Pandava">>],
       [primary_name |-> "Bhima", aliases |-> <<"Vrikodara", "Bhimasena", "Jarasandha-jit">>],
       [primary_name |-> "Nakula", aliases |-> <<"Madri-nandana">>],
       [primary_name |-> "Sahadeva", aliases |-> <<"Madri-suta">>],
       [primary_name |-> "Duryodhana", aliases |-> <<"Suyodhana", "Kaurava">>],
       [primary_name |-> "Dushasana", aliases |-> <<>>],
       [primary_name |-> "Dronacharya", aliases |-> <<"Drona", "Dronacarya">>],
       [primary_name |-> "Kripacharya", aliases |-> <<"Kripa">>],
       [primary_name |-> "Bhishma", aliases |-> <<"Devavrata", "Gangeya", "Shantanu-nandana">>],
       [primary_name |-> "Dhritarashtra", aliases |-> <<>>],
       [primary_name |-> "Vidura", aliases |-> <<"Kshatri">>],
       [primary_name |-> "Sanjaya", aliases |-> <<>>],
       [primary_name |-> "Karna", aliases |-> <<"Radheya", "Vaikartana", "Sutaputra">>],
       [primary_name |-> "Drupada", aliases |-> <<"Yajnasena">>],
       [primary_name |-> "Draupadi", aliases |-> <<"Krishnaa", "Panchali", "Yajnaseni">>],
       [primary_name |-> "Shakuni", aliases |-> <<"Saubala">>],
       [primary_name |-> "Indra", aliases |-> <<"Sakra", "Devaraja", "Purandara">>],
       [primary_name |-> "Surya", aliases |-> <<"Vivasvan", "Aditya">>],
       [primary_name |-> "Yama", aliases |-> <<"Dharmaraja", "Mrityu">>],
       [primary_name |-> "Vayu", aliases |-> <<"Pavana", "Matali">>],
       [primary_name |-> "Vyasa", aliases |-> <<"Vedavyasa", "Krishna Dvaipayana">>],
       [primary_name |-> "Parashurama", aliases |-> <<"Bhargava", "Jamadagnya">>],
       [primary_name |-> "Abhimanyu", aliases |-> <<"Arjuni", "Subhadra-nandana">>],
       [primary_name |-> "Gandhari", aliases |-> <<>>],
       [primary_name |-> "Kunti", aliases |-> <<"Pritha">>],
       [primary_name |-> "Madri", aliases |-> <<>>]
    >>

\* the lowercased primary_name of every CharacterEntry: the canonical names
PrimaryNames == { Lower(CHARACTERS[i].primary_name) : i \in 1..Len(CHARACTERS) }

(***************************************************************************)
(*                     name_corrector.py: NameCorrector                    *)
(***************************************************************************)
\* NameCorrector.__init__: threshold = 0.6
threshold == Frac(6, 10)

common_misspellings ==
    <<
       <<"krishna", <<"krsna", "krushna", "krishn", "krishana", "krisna", "krshna">> >>,
       <<"krsna", <<"krishna", "krushna", "krishn", "krishana", "krisna", "krshna">> >>,
       <<"arjuna", <<"arjun", "arjoon", "arjoona", "arjunn">> >>,
       <<"bhishma", <<"bheeshma", "bheeshm", "bhishm", "bheesma", "bheeshmaa">> >>,
       <<"duryodhana", <<"duryodhan", "duryodhna", "duryodhan", "duryodhanna">> >>,
       <<"yudhishthira", <<"yudhisthira", "yudhishtir", "yudhisthir", "dharmaraja">> >>,
       <<"draupadi", <<"dropadi", "draupadi", "draupadi", "panchali", "krishnaa">> >>,
       <<"karna", <<"karn", "karan", "karana", "radheya">> >>,
       <<"dronacharya", <<"drona", "dron", "dronacarya">> >>,
       <<"maharathi", <<"maharath", "maharathi", "maharathin">> >>,
       <<"deva", <<"dev", "devta", "daiva">> >>,
       <<"asura", <<"asur", "asurta">> >>
    >>

\* for variation in variations[i..]: name_map[variation] = target
RECURSIVE SetVariations(_, _, _, _)
SetVariations(d, variations, i, target) ==
    IF Len(d) >= 0 /\ i > Len(variations) THEN d
    ELSE SetVariations(DictSet(d, variations[i], target), variations, i + 1, target)

\* the inner loop of the first pass: every alias, and the listed variations of
\* an alias that is itself a key of common_misspellings, map to the primary
RECURSIVE AddAliases(_, _, _, _)
AddAliases(d, aliases, i, primary) ==
    IF Len(d) >= 0 /\ i > Len(aliases) THEN d
    ELSE LET alias_lower == Lower(aliases[i])
             d1 == DictSet(d, alias_lower, primary)
             d2 == IF DictHas(common_misspellings, alias_lower)
                   THEN SetVariations(d1, DictGet(common_misspellings, alias_lower), 1, primary)
                   ELSE d1
         IN AddAliases(d2, aliases, i + 1, primary)

\* the first pass: for char_name, char_info in CHARACTERS.items()
RECURSIVE AddCharacters(_, _)
AddCharacters(d, i) ==
    IF Len(d) >= 0 /\ i > Len(CHARACTERS) THEN d
    ELSE LET primary == Lower(CHARACTERS[i].primary_name)
             d1 == DictSet(d, primary, primary)
         IN AddCharacters(AddAliases(d1, CHARACTERS[i].aliases, 1, primary), i + 1)

\* the guard of the second pass: "if primary in name_map"
MisspellingKeyKnown(d, key) == DictHas(d, key)

\* the second pass: for primary, variations in common_misspellings.items()
RECURSIVE AddMisspellings(_, _)
AddMisspellings(d, i) ==
    IF Len(d) >= 0 /\ i > Len(common_misspellings) THEN d
    ELSE LET key == common_misspellings[i][1]
             d1 == IF MisspellingKeyKnown(d, key)
                   THEN SetVariations(d, common_misspellings[i][2], 1, key)
                   ELSE d
         IN AddMisspellings(d1, i + 1)

\* NameCorrector._build_name_map
BuildNameMap == AddMisspellings(AddCharacters(<<>>, 1), 1)

\* self.name_map, built once in __init__
name_map == BuildNameMap

\* the names _build_phonetic_map hashes: every primary name and alias, lowercased,
\* each paired with its primary
PhoneticNames ==
    UNION { {<<Lower(CHARACTERS[i].primary_name), Lower(CHARACTERS[i].primary_name)>>}
            \cup { <<Lower(CHARACTERS[i].aliases[j]), Lower(CHARACTERS[i].primary_name)>>
                   : j \in 1..Len(CHARACTERS[i].aliases) }
            : i \in 1..Len(CHARACTERS) }

\* jellyfish.levenshtein_distance: one row of the dynamic programme.  prev is the
\* row of s1[1..i-1], cur the part of the row of s1[1..i] built so far (cur[1] is
\* column 0), j the next column.
RECURSIVE LevRow(_, _, _, _, _)
LevRow(prev, c, s2, j, cur) ==
    IF Len(cur) >= 0 /\ j > Len(s2) THEN cur
    ELSE LET cost == IF Ch(s2, j) = c THEN 0 ELSE 1
             best == Min(Min(prev[j + 1] + 1, cur[j] + 1), prev[j] + cost)
         IN LevRow(prev, c, s2, j + 1, Append(cur, best))

RECURSIVE LevRows(_, _, _, _)
LevRows(s1, s2, i, prev) ==
    IF Len(prev) >= 0 /\ i > Len(s1) THEN prev[Len(s2) + 1]
    ELSE LevRows(s1, s2, i + 1, LevRow(prev, Ch(s1, i), s2, 1, <<i>>))

levenshtein_distance(s1, s2) == LevRows(s1, s2, 1, [j \in 1..(Len(s2) + 1) |-> j - 1])

\* NameCorrector._get_edit_distance_score
get_edit_distance_score(s1, s2) ==
    LET max_len == Max(Len(s1), Len(s2))
    IN IF max_len = 0 THEN FOne
       ELSE Frac(max_len - levenshtein_distance(s1, s2), max_len)

\* The partial-match loop of correct_name keeps a known name when one string
\* contains the other and the length ratio reaches the threshold.
PartialRatio(name, known) == Frac(Min(Len(name), Len(known)), Max(Len(name), Len(known)))
PartialHit(name, known) ==
    /\ Contains(name, known) \/ Contains(known, name)
    /\ FGe(PartialRatio(name, known), threshold)
\* what the partial-match stage returns for the known name it stops at
PartialResult(name, known, primary) == <<primary, FMul(PartialRatio(name, known), Frac(9, 10))>>

\* The fuzzy stage of correct_name: all_names is a Python set of strings, whose
\* iteration order changes from process to process (string hashing is seeded), and
\* only a strictly better score replaces best_match: any known name whose score is
\* the highest, and reaches the threshold, can be the best_match.
all_names == DictKeys(name_map) \cup DictVals(name_map)
\* an edit stage that asks more of a score than the phonetic stage does
EditAccepts_Stricter(score) == FGe(score, Frac(9, 10))
EditAccepts(score) == FGe(score, threshold)
BestEditMatches(name) ==
    LET scored == { <<k, get_edit_distance_score(name, k)>> : k \in all_names }
        best == { p \in scored :
                    /\ FGt(p[2], FZero) /\ EditAccepts(p[2])
                    /\ \A q \in scored : FGe(p[2], q[2]) }
    IN { p[1] : p \in best }

\* The phonetic stage of correct_name.  jellyfish's soundex, metaphone and nysiis
\* are library code: which known names share a hash with the input is left open
\* (any subset of PhoneticNames).  max() over such a subset can pick any of its
\* names; the pick is returned, with score * 0.8, if its score reaches the threshold.
PhoneticResults(name) ==
    { <<pn[2], FMul(get_edit_distance_score(name, pn[1]), Frac(8, 10))>> :
        pn \in { q \in PhoneticNames : FGe(get_edit_distance_score(name, q[1]), threshold) } }

\* NameCorrector.correct_name: the set of values the call can return
correct_name(raw) ==
    IF raw = "" \/ Strip(raw) = "" THEN { <<None, FZero>> }
    ELSE LET name == Strip(Lower(raw))
             hits == { i \in 1..Len(name_map) : PartialHit(name, name_map[i][1]) }
         IN IF DictHas(name_map, name) THEN { <<DictGet(name_map, name), FOne>> }
            ELSE IF hits # {}
            THEN LET i == CHOOSE h \in hits : \A h2 \in hits : h <= h2
                 IN { PartialResult(name, name_map[i][1], name_map[i][2]) }
            ELSE LET best == BestEditMatches(name)
                 IN IF best # {}
                    THEN { <<DictGet(name_map, b), get_edit_distance_score(name, b)>> : b \in best }
                    ELSE PhoneticResults(name) \cup { <<None, FZero>> }

\* the end of the run of characters of class cls that starts at position i of s
\* (i - 1 when s[i] is not in cls)
RECURSIVE RunEnd(_, _, _)
RunEnd(s, i, cls) == IF i <= Len(s) /\ Ch(s, i) \in cls THEN RunEnd(s, i + 1, cls) ELSE i - 1

\* s cut into its maximal runs of word characters (regex \w+) and the runs of
\* other characters between them, in order
RECURSIVE WordRuns(_, _)
WordRuns(s, i) ==
    IF i > Len(s) THEN <<>>
    ELSE LET e == IF Ch(s, i) \in WordSet
                  THEN RunEnd(s, i, WordSet)
                  ELSE RunEnd(s, i, CharSet(s) \ WordSet)
         IN <<SubSeq(s, i, e)>> \o WordRuns(s, e + 1)

IsWord(run) == run # "" /\ Ch(run, 1) \in WordSet

\* re.findall(r'\b\w+\b', text)
FindWords(text) == SelectSeq(WordRuns(text, 1), IsWord)

RECURSIVE Join(_, _)
Join(runs, i) == IF i > Len(runs) THEN "" ELSE runs[i] \o Join(runs, i + 1)

\* re.sub(r'\b' + re.escape(orig) + r'\b', corr, text) for an orig made of word
\* characters: the matches are the maximal word runs equal to orig
SubWord(orig, corr, text) ==
    LET runs == WordRuns(text, 1)
    IN Join([i \in 1..Len(runs) |-> IF runs[i] = orig THEN corr ELSE runs[i]], 1)

\* a correct_text that records the capitalised name whatever the word's case
PreserveCase_AlwaysCapitalized(word, corrected) == Capitalize(corrected)

\* "Preserve the original capitalization pattern" in correct_text
PreserveCase(word, corrected) ==
    IF Ch(word, 1) \in UpperSet
    THEN IF Len(word) > 1 /\ IsLowerStr(From(word, 2))
         THEN Capitalize(corrected)
         ELSE Upper(corrected)
    ELSE corrected

\* the shortest word correct_text looks at
MinNameLen == 3

\* the words the texts of the model are made of: a listed misspelling in three
\* capitalisations, a word that is no name, a primary name that is also a listed
\* misspelling, and an alias of that name
NameVocabulary == << "bheeshma", "fought", "karan", "Bheeshma", "KARAN", "krishna", "krsna" >>

\* the questions put to answer_question
Questions ==
    { "", "  ", "verse 2.47", "what does 2.47 say", "chapter 2 verse 47",
      "chapter two verse forty seven", "verse 9.99", "Verse 2:47 please",
      "what is karma yoga", "tell me about krishna", "explain chapter 5",
      "what does krishna teach about duty", "how to handle stress" }

\* correct_name depends on its argument and on the maps built at construction
\* only: what it returns for the words of the vocabulary and of the questions
\* is evaluated once
CachedWords ==
    { NameVocabulary[i] : i \in 1..Len(NameVocabulary) } \cup
    UNION { { FindWords(q)[i] : i \in 1..Len(FindWords(q)) } : q \in Questions }
CorrectNameOfWord == { <<w, correct_name(w)>> : w \in CachedWords }
correct_name_of(word) ==
    IF \E p \in CorrectNameOfWord : p[1] = word
    THEN (CHOOSE p \in CorrectNameOfWord : p[1] = word)[2]
    ELSE correct_name(word)

\* the test that records a correction: a match, good enough, that changes the word
RecordsCorrection(word, res) ==
    res[1] # None /\ FGe(res[2], threshold) /\ Lower(word) # res[1]

\* the first loop of correct_text from word i on: the corrections dicts it can build
RECURSIVE CollectCorrections(_, _, _)
CollectCorrections(words, i, corrections) ==
    IF Len(corrections) >= 0 /\ i > Len(words) THEN { corrections }
    ELSE IF Len(words[i]) < MinNameLen THEN CollectCorrections(words, i + 1, corrections)
    ELSE UNION { IF RecordsCorrection(words[i], res)
                 THEN CollectCorrections(words, i + 1,
                          DictSet(corrections, words[i], PreserveCase(words[i], res[1])))
                 ELSE CollectCorrections(words, i + 1, corrections)
                 : res \in correct_name_of(words[i]) }

\* the second loop of correct_text: one substitution pass per recorded correction,
\* in the order of the dict, each on the text the passes before it produced
RECURSIVE ApplyCorrections(_, _, _)
ApplyCorrections(text, corrections, i) ==
    IF Len(text) >= 0 /\ i > Len(corrections) THEN text
    ELSE ApplyCorrections(SubWord(corrections[i][1], corrections[i][2], text), corrections, i + 1)

\* NameCorrector.correct_text: the set of <<text, corrections>> the call can return
correct_text_names(text) ==
    IF text = "" THEN { <<text, <<>> >> }
    ELSE { <<ApplyCorrections(text, c, 1), c>> : c \in CollectCorrections(FindWords(text), 1, <<>>) }

(***************************************************************************)
(*             text_utils.py: the vocabulary of a TextProcessor            *)
(***************************************************************************)
\* "Add common Gita terms that might be useful for correction"
gita_terms ==
  {
    "karma", "dharma", "bhakti", "yoga", "krishna", "arjuna", "bhagavad", "gita", "veda",
    "upanishad", "bhagavan", "atman", "brahman", "moksha", "samsara", "maya", "prakriti",
    "purusha", "guna", "jnana", "yogi", "sankhya", "yogin", "ishvara", "jiva", "mahatma"
  }

\* "Add common prefixes and suffixes for better word splitting"
prefixes ==
  {
    "un", "re", "in", "im", "dis", "en", "pre", "pro", "sub", "trans"
  }

suffixes ==
  {
    "ing", "ed", "ly", "ment", "tion", "sion", "ness", "less", "ful", "able"
  }

\* words.words(): the English word list of the NLTK corpus.  The list is data
\* outside the repository; these words of it stand for it.
words_words ==
  {
    "a", "action", "and", "change", "do", "duty", "is", "line", "lord", "not", "of", "one",
    "perform", "right", "said", "soul", "speak", "supreme", "test", "than", "the", "this",
    "to", "transcendental", "truth", "two", "understand", "understanding", "with", "word"
  }

\* TextProcessor._load_common_words
load_common_words == words_words \cup gita_terms \cup prefixes \cup suffixes

\* TextProcessor.__init__: the word list is loaded, the correction map is empty
NewTextProcessor ==
    /\ common_words = load_common_words
    /\ correction_map = <<>>

\* no correction map has been written yet
NoMapFile == map_file = <<>>

(***************************************************************************)
(*          The NameCorrector as a state machine: calls and results        *)
(***************************************************************************)
\* the longest text, in words, handed to NameCorrector.correct_text
MaxNameWords == 3

\* names handed to correct_name besides the keys of the name map: prefixes, typos,
\* padded and capitalised spellings, the empty and the blank string, a non-name
ExtraNames ==
    { "", "  ", "kar", "krish", "kris", "xyzzyqq", "yudhistir", "fought", "karma",
      " KRSNA ", "Krishna", "ARJUNA", "bhisma", "kanti", "dro", "bhim", "arj", "indr",
      "vidur", "kunt", "pandav", "suta", "gandha", "yam", "drupadi" }
NameInputs == DictKeys(name_map) \cup ExtraNames

RECURSIVE JoinWords(_, _)
JoinWords(ws, i) ==
    IF i > Len(ws) THEN ""
    ELSE IF i = Len(ws) THEN NameVocabulary[ws[i]]
    ELSE NameVocabulary[ws[i]] \o " " \o JoinWords(ws, i + 1)

NameTexts ==
    { JoinWords(ws, 1) : ws \in UNION { [1..n -> 1..Len(NameVocabulary)] : n \in 1..MaxNameWords } }

\* no call is under way
NoCall ==
    /\ op = "idle"
    /\ call_in = ""
    /\ call_out = None

\* QASystem.__init__: nothing loaded yet, and the locals of load_and_process_pdf
\* before its page loop
Constructed ==
    /\ pc = "constructed"
    /\ page_num = 0
    /\ lines = <<>>
    /\ line_i = 0
    /\ current_chapter = NoInt
    /\ current_verse = NoInt
    /\ verse_text = <<>>
    /\ verse_index = <<>>
    /\ documents = <<>>

InitNames ==
    /\ NoCall
    /\ pdf = <<>>
    /\ Constructed
    /\ NewTextProcessor
    /\ NoMapFile

\* a caller invokes correct_name
CallCorrectName ==
    /\ op = "idle"
    /\ \E n \in NameInputs : \E r \in correct_name(n) :
        /\ op' = "correct_name"
        /\ call_in' = n
        /\ call_out' = r
    /\ UNCHANGED <<loadVars, verse_index, documents, textVars>>

\* a caller invokes correct_text
CallCorrectText ==
    /\ op = "idle"
    /\ \E t \in NameTexts : \E r \in correct_text_names(t) :
        /\ op' = "correct_text"
        /\ call_in' = t
        /\ call_out' = r
    /\ UNCHANGED <<loadVars, verse_index, documents, textVars>>

\* a caller hands the text correct_text returned back to correct_text
CallCorrectTextAgain ==
    /\ op = "correct_text"
    /\ \E r \in correct_text_names(call_out[1]) :
        /\ op' = "correct_text_again"
        /\ call_in' = call_out[1]
        /\ call_out' = r
    /\ UNCHANGED <<loadVars, verse_index, documents, textVars>>

\* the caller is done with the result and is ready for its next call
Return ==
    /\ op # "idle"
    /\ op' = "idle"
    /\ call_in' = ""
    /\ call_out' = None
    /\ UNCHANGED <<loadVars, verse_index, documents, textVars>>

NextNames == CallCorrectName \/ CallCorrectText \/ CallCorrectTextAgain \/ Return

SpecNames == InitNames /\ [][NextNames]_vars

(***************************************************************************)
(*        The verse indexer: QASystem.load_and_process_pdf, get_verse      *)
(***************************************************************************)
\* "Skip first few pages which might contain preface/acknowledgments"
start_page == 10

\* "Only add if there's substantial content"
MinDocumentLen == 100

pdf_path == "gita.pdf"

\* the first position at or after from where s has the character sep, Len(s) + 1
\* when there is none
NextSep(s, sep, from) ==
    LET at == { p \in from..Len(s) : Ch(s, p) = sep }
    IN IF at = {} THEN Len(s) + 1 ELSE CHOOSE p \in at : \A q \in at : p <= q

\* str.split(sep) for a one-character sep: the pieces between the separators
RECURSIVE SplitFrom(_, _, _)
SplitFrom(s, sep, from) ==
    LET e == NextSep(s, sep, from)
    IN IF e > Len(s) THEN <<SubSeq(s, from, Len(s))>>
       ELSE <<SubSeq(s, from, e - 1)>> \o SplitFrom(s, sep, e + 1)

SplitOn(s, sep) == SplitFrom(s, sep, 1)

\* str.split(): the maximal runs of non-whitespace characters
RECURSIVE SplitWs(_, _)
SplitWs(s, i) ==
    IF i > Len(s) THEN <<>>
    ELSE IF Ch(s, i) \in SpaceSet
         THEN SplitWs(s, i + 1)
         ELSE LET e == RunEnd(s, i, CharSet(s) \ SpaceSet)
              IN <<SubSeq(s, i, e)>> \o SplitWs(s, e + 1)

\* ' '.join(parts)
RECURSIVE JoinSpace(_, _)
JoinSpace(parts, i) ==
    IF i > Len(parts) THEN ""
    ELSE IF i = Len(parts) THEN parts[i]
    ELSE parts[i] \o " " \o JoinSpace(parts, i + 1)

IsDigits(s) == s # "" /\ \A i \in 1..Len(s) : Ch(s, i) \in DigitSet

DigitValue ==
    ("0" :> 0) @@ ("1" :> 1) @@ ("2" :> 2) @@ ("3" :> 3) @@ ("4" :> 4) @@
    ("5" :> 5) @@ ("6" :> 6) @@ ("7" :> 7) @@ ("8" :> 8) @@ ("9" :> 9)

RECURSIVE DigitsValue(_, _)
DigitsValue(s, acc) ==
    IF s = "" THEN acc ELSE DigitsValue(From(s, 2), 10 * acc + DigitValue[Ch(s, 1)])

\* int(s) for a string without whitespace: an optional sign and decimal digits
IntOf(s) ==
    IF IsDigits(s) THEN <<DigitsValue(s, 0)>>
    ELSE IF Len(s) > 1 /\ Ch(s, 1) = "+" /\ IsDigits(From(s, 2)) THEN <<DigitsValue(From(s, 2), 0)>>
    ELSE IF Len(s) > 1 /\ Ch(s, 1) = "-" /\ IsDigits(From(s, 2)) THEN <<0 - DigitsValue(From(s, 2), 0)>>
    ELSE NoInt

\* verse_pattern.search(line) for r'(?:Bg\s*)?(\d+)\.(\d+)(?:\s|$)': the groups
\* of the leftmost match, <<>> when there is none.  A match starts at a run of
\* digits that is followed by a dot, a second run of digits and then a space
\* or the end of the line; the optional "Bg" in front adds nothing to the groups.
VerseMatchAt(line, p) ==
    LET e1 == RunEnd(line, p, DigitSet)
        e2 == RunEnd(line, e1 + 2, DigitSet)
    IN /\ Ch(line, p) \in DigitSet
       /\ p = 1 \/ Ch(line, p - 1) \notin DigitSet
       /\ e1 < Len(line) /\ Ch(line, e1 + 1) = "."
       /\ e2 >= e1 + 2
       /\ e2 = Len(line) \/ Ch(line, e2 + 1) \in SpaceSet

verse_pattern_search(line) ==
    LET starts == { p \in 1..Len(line) : VerseMatchAt(line, p) }
    IN IF starts = {} THEN <<>>
       ELSE LET p == CHOOSE q \in starts : \A r \in starts : q <= r
                e1 == RunEnd(line, p, DigitSet)
                e2 == RunEnd(line, e1 + 2, DigitSet)
            IN <<SubSeq(line, p, e1), SubSeq(line, e1 + 2, e2)>>

\* [line.strip() for line in text.split('\n') if line.strip()]
StripAll(ls) == [j \in 1..Len(ls) |-> Strip(ls[j])]
NotEmpty(l) == l # ""
PageLines(text) == SelectSeq(StripAll(SplitOn(text, "\n")), NotEmpty)

\* clean_text: the lines that hold nothing but a page number are dropped
\* (the first two substitutions) and all whitespace is collapsed to single
\* spaces.  The running header it removes contains letters outside ASCII and
\* does not occur in the page texts of the model.
IsPageNumberLine(l) == IsDigits(Strip(l))
NotPageNumber(l) == ~IsPageNumberLine(l)
clean_text(text) ==
    LET kept == SelectSeq(SplitOn(text, "\n"), NotPageNumber)
    IN JoinSpace(SplitWs(JoinSpace(kept, 1), 1), 1)

Document(page_content, page) ==
    [page_content |-> page_content, metadata |-> [page |-> page, source |-> pdf_path]]

\* f"{chapter}.{verse}"
VerseRef(chapter, verse) == ToString(chapter[1]) \o "." \o ToString(verse[1])

VerseRecord(text_lines, page) ==
    [text |-> Strip(JoinSpace(text_lines, 1)), page |-> page, source |-> pdf_path]

\* "if current_chapter is not None and current_verse is not None and verse_text"
VerseOpen(chapter, verse, text_lines) == chapter # NoInt /\ verse # NoInt /\ text_lines # <<>>

\* the index after the verse being collected, if any, has been saved under its
\* reference with the number of the page being processed
Sealed(index, chapter, verse, text_lines, pnum) ==
    IF VerseOpen(chapter, verse, text_lines)
    THEN DictSet(index, VerseRef(chapter, verse), VerseRecord(text_lines, pnum + 1))
    ELSE index

\* part.split('Bg')[-1]: what follows the last "Bg" of part
AfterLastBg(part) ==
    LET at == { p \in 1..Len(part) : MatchAt("Bg", part, p) }
        last == CHOOSE p \in at : \A q \in at : q <= p
    IN From(part, last + 2)

\* the loop over the parts of a 'TEXT ... Bg<chapter>.<verse>' line:
\* <<current_chapter, current_verse, whether a part gave both numbers>>.  A part
\* whose chapter converts and whose verse does not leaves the chapter assigned.
RECURSIVE TextBgParts(_, _, _, _)
TextBgParts(parts, j, chapter, verse) ==
    IF j > Len(parts) THEN <<chapter, verse, FALSE>>
    ELSE IF ~(Contains("Bg", parts[j]) /\ Contains(".", parts[j]))
         THEN TextBgParts(parts, j + 1, chapter, verse)
    ELSE LET ref == SplitOn(AfterLastBg(parts[j]), ".")
         IN IF Len(ref) # 2 THEN TextBgParts(parts, j + 1, chapter, verse)
            ELSE IF IntOf(ref[1]) = NoInt THEN TextBgParts(parts, j + 1, chapter, verse)
            ELSE IF IntOf(ref[2]) = NoInt THEN TextBgParts(parts, j + 1, IntOf(ref[1]), verse)
            ELSE <<IntOf(ref[1]), IntOf(ref[2]), TRUE>>

\* "Special handling for the specific format in this PDF"
IsTextBgLine(line) == Contains("TEXT ", line) /\ Contains("Bg", line)

\* get_verse
get_verse(index, chapter, verse) ==
    IF DictHas(index, VerseRef(<<chapter>>, <<verse>>))
    THEN DictGet(index, VerseRef(<<chapter>>, <<verse>>))
    ELSE None

(***************************************************************************)
(*              load_and_process_pdf as a state machine                    *)
(***************************************************************************)
\* the most pages a PDF has after the skipped front matter
MaxBodyPages == 3

FrontPage == "1.1\nDhritarashtra said"
FrontMatter == [j \in 1..start_page |-> FrontPage]

ScenarioPage == "2.47 Thou hast a right to perform thy duty"
LongPage ==
    "3.1\nArjuna said: O Janardana, if You think that intelligence is better than fruitive work,\n12\nwhy do You urge me to engage in this ghastly warfare"

PageTexts ==
    { ScenarioPage,
      "2.47\nThou hast a right\nto perform thy duty",
      "but not to the fruits\n  of action",
      "TEXT 48 Bg2.48\nPerform thy duty\n2.49\nFar inferior is action",
      "2.47\n2.48\nBe steadfast in yoga",
      "2.47\nThou hast a right\nTEXT 48 Bg2.48\nPerform thy duty",
      "0.0\nIntroduction",
      LongPage,
      "" }

\* a PDF shorter than the front matter, and PDFs with pages after it
ShortPdfs == { <<"Preface", t, "Index">> : t \in PageTexts }

\* "examining the first few pages": the pages start_page .. start_page + 9
ExaminedPages == 10

\* a page whose extract_text() raises: what the reader gives for the page is
\* the exception, written as a page value no text can have
ExtractionError == "<extract_text raises>"
ExtractionFails(page) == page = ExtractionError

\* PDFs with pages whose extraction fails among the pages after the front
\* matter, and one PDF where the failing page lies after the examined pages
FaultyPageTexts ==
    { ExtractionError, "2.47\nThou hast a right\nto perform thy duty", "2.48\nBe steadfast in yoga" }
FaultyPdfs ==
    { FrontMatter \o body : body \in UNION { [1..n -> FaultyPageTexts] : n \in 1..MaxBodyPages } }
LateFaultPdf ==
    FrontMatter \o [j \in 1..ExaminedPages |-> ""] \o
        <<"2.47\nThou hast a right\nto perform thy duty", ExtractionError, LongPage>>
PdfInputs ==
    ShortPdfs \cup FaultyPdfs \cup {LateFaultPdf} \cup
    { FrontMatter \o body : body \in UNION { [1..n -> PageTexts] : n \in 0..MaxBodyPages } }

\* the verses a caller asks get_verse for
VerseQueries == { <<2, 47>>, <<2, 48>>, <<2, 49>>, <<3, 1>>, <<1, 1>>, <<18, 66>> }

InitIndex ==
    /\ NoCall
    /\ pdf \in PdfInputs
    /\ Constructed
    /\ NewTextProcessor
    /\ NoMapFile

\* the pages the examining loop extracts and prints, as positions of pdf:
\* range(start_page, min(start_page + 10, len(reader.pages)))
Examined(reader_pages) ==
    { j \in 1..Len(reader_pages) : j > start_page /\ j <= start_page + ExaminedPages }

\* load_and_process_pdf is called: the reader is opened, the locals are set and
\* the examining loop runs.  That loop stands outside the try block of the
\* processing loop, so an exception of extract_text leaves the function.
BeginLoad ==
    /\ pc = "constructed"
    /\ pc' = IF \E j \in Examined(pdf) : ExtractionFails(pdf[j]) THEN "raised" ELSE "pages"
    /\ page_num' = start_page - 1
    /\ UNCHANGED <<textVars, callVars, pdf, lines, line_i, current_chapter, current_verse,
                   verse_text, verse_index, documents>>

\* the head of "for page_num in range(start_page, len(reader.pages))" and the
\* part of its body before the line loop.  An exception of extract_text is
\* caught by the except clause of the loop body and an empty text is skipped
\* by "continue": both go on to the next page with the locals as they are.
NextPage ==
    /\ pc = "pages"
    /\ IF page_num + 1 < Len(pdf)
       THEN LET text == pdf[page_num + 2]
                cleaned_text == clean_text(text)
            IN /\ page_num' = page_num + 1
               /\ IF ExtractionFails(text) \/ text = ""
                  THEN UNCHANGED <<pc, lines, line_i, documents>>
                  ELSE /\ pc' = "lines"
                       /\ lines' = PageLines(text)
                       /\ line_i' = 0
                       /\ documents' = IF Len(cleaned_text) > MinDocumentLen
                                       THEN Append(documents, Document(cleaned_text, page_num + 2))
                                       ELSE documents
       ELSE /\ pc' = "final"
            /\ UNCHANGED <<page_num, lines, line_i, documents>>
    /\ UNCHANGED <<textVars, callVars, pdf, current_chapter, current_verse, verse_text, verse_index>>

\* one pass of "while i < len(lines)"
ProcessLine ==
    /\ pc = "lines"
    /\ line_i < Len(lines)
    /\ LET line == lines[line_i + 1]
           match == verse_pattern_search(line)
           has_next == line_i + 1 < Len(lines)
       IN IF IsTextBgLine(line)
          THEN LET r == TextBgParts(SplitWs(line, 1), 1, current_chapter, current_verse)
               IN /\ current_chapter' = r[1]
                  /\ current_verse' = r[2]
                  /\ verse_text' = IF r[3] /\ has_next THEN <<lines[line_i + 2]>> ELSE verse_text
                  /\ line_i' = IF r[3] /\ has_next THEN line_i + 2 ELSE line_i + 1
                  /\ UNCHANGED verse_index
          ELSE IF match # <<>>
          THEN /\ verse_index' = Sealed(verse_index, current_chapter, current_verse, verse_text, page_num)
               /\ current_chapter' = IntOf(match[1])
               /\ current_verse' = IntOf(match[2])
               /\ verse_text' = IF has_next THEN <<lines[line_i + 2]>>
                                ELSE IF VerseOpen(current_chapter, current_verse, verse_text) THEN <<>>
                                ELSE verse_text
               /\ line_i' = IF has_next THEN line_i + 2 ELSE line_i + 1
          ELSE /\ verse_text' = IF /\ current_chapter # NoInt
                                   /\ current_verse # NoInt
                                   /\ ~StartsWith(line, "TEXT")
                                   /\ ~StartsWith(line, "Bg")
                                THEN Append(verse_text, line)
                                ELSE verse_text
               /\ line_i' = line_i + 1
               /\ UNCHANGED <<current_chapter, current_verse, verse_index>>
    /\ UNCHANGED <<textVars, callVars, pdf, pc, page_num, lines, documents>>

\* "After processing each page, check if we have a verse to save"
EndPage ==
    /\ pc = "lines"
    /\ line_i >= Len(lines)
    /\ verse_index' = Sealed(verse_index, current_chapter, current_verse, verse_text, page_num)
    /\ verse_text' = IF VerseOpen(current_chapter, current_verse, verse_text) THEN <<>> ELSE verse_text
    /\ pc' = "pages"
    /\ UNCHANGED <<textVars, callVars, pdf, page_num, lines, line_i, current_chapter, current_verse, documents>>

\* "Don't forget to add the last verse if we were in the middle of one"
FinishLoad ==
    /\ pc = "final"
    /\ verse_index' = Sealed(verse_index, current_chapter, current_verse, verse_text, page_num)
    /\ pc' = "done"
    /\ UNCHANGED <<textVars, callVars, pdf, page_num, lines, line_i, current_chapter, current_verse,
                   verse_text, documents>>

\* a caller invokes get_verse on the loaded index
CallGetVerse ==
    /\ pc = "done"
    /\ op = "idle"
    /\ \E q \in VerseQueries :
        /\ op' = "get_verse"
        /\ call_in' = q
        /\ call_out' = get_verse(verse_index, q[1], q[2])
    /\ UNCHANGED <<loadVars, verse_index, documents, textVars>>

NextIndex == BeginLoad \/ NextPage \/ ProcessLine \/ EndPage \/ FinishLoad \/ CallGetVerse \/ Return

SpecIndex == InitIndex /\ [][NextIndex]_vars


(***************************************************************************)
(*          The document matcher: QASystem.get_relevant_documents          *)
(***************************************************************************)
\* cleaned page texts with "substantial content" (more than 100 characters)
DocDuty ==
    "You have a right to perform your prescribed Duty, but you are not entitled to the fruits of action. Karma Yoga is the path of selfless action."
DocYoga ==
    "The Blessed Lord said: the yoga of knowledge and the yoga of karma both lead to liberation, but of the two, work in devotion is better."
DocSoul ==
    "For the soul there is neither birth nor death at any time. It is unborn, eternal, ever-existing and primeval; duty done for the soul endures."
DocTexts == { DocDuty, DocYoga, DocSoul }

\* the lowercased page texts of the model, computed once
LoweredTexts == { <<t, Lower(t)>> : t \in DocTexts }
LowerText(t) ==
    IF t \in DocTexts THEN (CHOOSE p \in LoweredTexts : p[1] = t)[2] ELSE Lower(t)

\* "Ignore very short words"
MinTermLen == 2

\* "At least 30% match"
GoodMatchScore == Frac(3, 10)

\* set(term for term in query.split() if len(term) > 2), of the lowercased query
query_terms(query) ==
    LET terms == SplitWs(Lower(query), 1)
    IN { terms[j] : j \in { n \in 1..Len(terms) : Len(terms[n]) > MinTermLen } }

\* term_matches of score_document
term_matches(terms, doc_text) ==
    LET doc_text_lower == LowerText(doc_text)
    IN Cardinality({ term \in terms : Contains(term, doc_text_lower) })

\* "If we have at least 2 matching terms, consider the document"
MinTermMatches == 2

score_document(terms, doc_text) ==
    LET n == term_matches(terms, doc_text)
    IN IF n >= MinTermMatches THEN Frac(n, Cardinality(terms)) ELSE FZero

\* scored_docs before the sort: <<score, doc>> for the documents with a score
\* above 0, in the order of the corpus
RECURSIVE ScoreDocs(_, _, _)
ScoreDocs(docs, terms, j) ==
    IF j > Len(docs) THEN <<>>
    ELSE LET score == score_document(terms, docs[j].page_content)
         IN IF FGt(score, FZero)
            THEN << <<score, docs[j]>> >> \o ScoreDocs(docs, terms, j + 1)
            ELSE ScoreDocs(docs, terms, j + 1)

\* where a sort that is stable and descending puts the next item: behind every
\* item whose score is at least as high; an order that would put it in front of
\* the items of equal score
ComesBefore_TiesReversed(placed, item) == FGt(placed[1], item[1])

ComesBefore(placed, item) == FGe(placed[1], item[1])

InsertByScore(sorted, item) ==
    LET ahead == Cardinality({ n \in 1..Len(sorted) : ComesBefore(sorted[n], item) })
    IN SubSeq(sorted, 1, ahead) \o <<item>> \o SubSeq(sorted, ahead + 1, Len(sorted))

\* scored_docs.sort(reverse=True, key=lambda x: x[0])
RECURSIVE SortByScore(_, _, _)
SortByScore(scored, j, sorted) ==
    IF j > Len(scored) THEN sorted
    ELSE SortByScore(scored, j + 1, InsertByScore(sorted, scored[j]))

\* a test that lets a top score of exactly 0.3 through
IsGoodMatch_AtLeast(score) == FGe(score, GoodMatchScore)

\* "scored_docs[0][0] > 0.3"
IsGoodMatch(score) == FGt(score, GoodMatchScore)

\* seq[a:b] of Python for 0 <= a and 0 <= b
Slice(seq, a, b) == SubSeq(seq, a + 1, Min(b, Len(seq)))

\* [doc for score, doc in scored]
RECURSIVE DocsOf(_, _)
DocsOf(scored, j) == IF j > Len(scored) THEN <<>> ELSE <<scored[j][2]>> \o DocsOf(scored, j + 1)

\* get_relevant_documents for a loaded corpus (with no documents it raises)
get_relevant_documents(docs, query, k) ==
    LET scored_docs == SortByScore(ScoreDocs(docs, query_terms(query), 1), 1, <<>>)
        mid_point == Len(docs) \div 2
    IN IF scored_docs # <<>> /\ IsGoodMatch(scored_docs[1][1])
       THEN DocsOf(Slice(scored_docs, 0, k), 1)
       ELSE Slice(docs, mid_point, mid_point + k)


(***************************************************************************)
(*            get_relevant_documents called on a loaded corpus             *)
(***************************************************************************)
\* the most documents the loaded corpus holds, and the largest k asked for
MaxDocs == 3
MaxK == 3

\* the documents load_and_process_pdf leaves for the pages start_page + 1,
\* start_page + 2, ... when these carry the given texts
CorpusOf(texts) == [j \in 1..Len(texts) |-> Document(texts[j], start_page + j)]
Corpora(max) == { CorpusOf(texts) : texts \in UNION { [1..n -> DocTexts] : n \in 0..max } }

RankQueries ==
    { "karma yoga", "Karma YOGA duty", "quantum mechanics", "karma", "of karma is it", "",
      "karma karma yoga", "kar yog", "the soul and duty",
      "karma yoga duty aaa bbb ccc ddd eee fff ggg",
      "karma yoga mmm nnn ooo ppp qqq",
      "soul duty birth death" }

\* a loaded system: the page loop is over
Loaded ==
    /\ pc = "done"
    /\ page_num = 0
    /\ lines = <<>>
    /\ line_i = 0
    /\ current_chapter = NoInt
    /\ current_verse = NoInt
    /\ verse_text = <<>>

InitRank ==
    /\ NoCall
    /\ pdf = <<>>
    /\ Loaded
    /\ NewTextProcessor
    /\ NoMapFile
    /\ verse_index = <<>>
    /\ documents \in Corpora(MaxDocs)

\* a document list that get_relevant_documents has sorted in place by score
DocumentsAfterRank_SortedInPlace(docs, query) ==
    DocsOf(SortByScore(ScoreDocs(docs, query_terms(query), 1), 1, <<>>), 1)

\* self.documents after get_relevant_documents: the call iterates over the
\* list and slices it; what it sorts is scored_docs, a list of its own
DocumentsAfterRank(docs, query) == docs

\* a caller invokes get_relevant_documents; "No documents loaded" is raised when
\* there are none
CallRank ==
    /\ op = "idle"
    /\ \E query \in RankQueries : \E k \in 0..MaxK :
        /\ call_in' = <<query, k>>
        /\ IF documents = <<>>
           THEN /\ op' = "raised"
                /\ call_out' = "ValueError"
           ELSE /\ op' = "rank"
                /\ call_out' = get_relevant_documents(documents, query, k)
        /\ documents' = DocumentsAfterRank(documents, query)
    /\ UNCHANGED <<loadVars, verse_index, textVars>>

NextRank == CallRank \/ Return

SpecRank == InitRank /\ [][NextRank]_vars

(***************************************************************************)
(*          QASystem._check_for_verse_reference and its patterns           *)
(***************************************************************************)
\* the smallest element of a non-empty set of integers
MinOf(S) == CHOOSE x \in S : \A y \in S : x <= y

\* the result of F at the leftmost position of s where F matches, <<>> when it
\* matches nowhere: re.search
Leftmost(s, F(_, _)) ==
    LET hits == { p \in 1..Len(s) : F(s, p) # <<>> }
    IN IF hits = {} THEN <<>> ELSE F(s, MinOf(hits))

\* s has a character of class cls at position q
ClassAt(s, q, cls) == q >= 1 /\ q <= Len(s) /\ Ch(s, q) \in cls

\* the first position at or after q that holds no whitespace: \s*
SkipWs(s, q) == RunEnd(s, q, SpaceSet) + 1

\* r'verse[\s,:-]*(\d+)[\s,:.-]+(?:verse|v\.?|vs\.?)?\s*(\d+)'
VerseSepsBefore == SpaceSet \cup {",", ":", "-"}
VerseSepsBetween == SpaceSet \cup {",", ":", ".", "-"}
\* the alternatives of the optional word in the order the regex tries them
VerseWords == <<"verse", "v.", "v", "vs.", "vs", "">>

\* where the second number starts when the text between the numbers ends
\* before position q; 0 when no alternative leads to a digit
SecondNumberAt(s, q) ==
    LET ok == { n \in 1..Len(VerseWords) :
                  /\ MatchAt(VerseWords[n], s, q)
                  /\ ClassAt(s, SkipWs(s, q + Len(VerseWords[n])), DigitSet) }
    IN IF ok = {} THEN 0 ELSE SkipWs(s, q + Len(VerseWords[MinOf(ok)]))

VersePattern1At(s, p) ==
    LET a == RunEnd(s, p + 5, VerseSepsBefore) + 1
        e1 == RunEnd(s, a, DigitSet)
        e2 == RunEnd(s, e1 + 1, VerseSepsBetween)
        b == SecondNumberAt(s, e2 + 1)
    IN IF MatchAt("verse", s, p) /\ e1 >= a /\ e2 >= e1 + 1 /\ b > 0
       THEN <<SubSeq(s, a, e1), SubSeq(s, b, RunEnd(s, b, DigitSet))>>
       ELSE <<>>

\* r'(?:^|\s)(\d+)[.:,-]\s*(\d+)(?:\s|$)'
RefSeps == {".", ":", ",", "-"}

VersePattern2At(s, p) ==
    LET a == IF p = 1 /\ ClassAt(s, 1, DigitSet) THEN 1
             ELSE IF ClassAt(s, p, SpaceSet) THEN p + 1 ELSE 0
        e1 == RunEnd(s, a, DigitSet)
        b == SkipWs(s, e1 + 2)
        e2 == RunEnd(s, b, DigitSet)
    IN IF /\ a > 0 /\ e1 >= a
          /\ ClassAt(s, e1 + 1, RefSeps)
          /\ e2 >= b
          /\ e2 = Len(s) \/ ClassAt(s, e2 + 1, SpaceSet)
       THEN <<SubSeq(s, a, e1), SubSeq(s, b, e2)>>
       ELSE <<>>

\* r'chapter\s+(\d+)\s+verse\s+(\d+)'
VersePattern3At(s, p) ==
    LET a == SkipWs(s, p + 7)
        e1 == RunEnd(s, a, DigitSet)
        v == SkipWs(s, e1 + 1)
        b == SkipWs(s, v + 5)
        e2 == RunEnd(s, b, DigitSet)
    IN IF /\ MatchAt("chapter", s, p) /\ a > p + 7
          /\ e1 >= a
          /\ v > e1 + 1 /\ MatchAt("verse", s, v)
          /\ b > v + 5 /\ e2 >= b
       THEN <<SubSeq(s, a, e1), SubSeq(s, b, e2)>>
       ELSE <<>>

\* r'chapter\s+(\w+)(?:\s+verse)?\s+(\w+)(?:\s+\w+)?(?:\s+\w+)?(?:\s+\w+)?':
\* the second group is the word after "verse" when a word follows it, and the
\* word after the first group otherwise
VersePattern4At(s, p) ==
    LET a == SkipWs(s, p + 7)
        e1 == RunEnd(s, a, WordSet)
        v == SkipWs(s, e1 + 1)
        b == SkipWs(s, v + 5)
        with_verse == MatchAt("verse", s, v) /\ b > v + 5 /\ ClassAt(s, b, WordSet)
        c == IF with_verse THEN b ELSE v
    IN IF /\ MatchAt("chapter", s, p) /\ a > p + 7
          /\ e1 >= a
          /\ v > e1 + 1
          /\ ClassAt(s, c, WordSet)
       THEN <<SubSeq(s, a, e1), SubSeq(s, c, RunEnd(s, c, WordSet))>>
       ELSE <<>>

verse_patterns(s) ==
    << Leftmost(s, VersePattern1At), Leftmost(s, VersePattern2At),
       Leftmost(s, VersePattern3At), Leftmost(s, VersePattern4At) >>

word_to_num ==
    << <<"one", 1>>, <<"two", 2>>, <<"three", 3>>, <<"four", 4>>, <<"five", 5>>,
       <<"six", 6>>, <<"seven", 7>>, <<"eight", 8>>, <<"nine", 9>>, <<"ten", 10>>,
       <<"eleven", 11>>, <<"twelve", 12>>, <<"thirteen", 13>>, <<"fourteen", 14>>,
       <<"fifteen", 15>>, <<"sixteen", 16>>, <<"seventeen", 17>>, <<"eighteen", 18>>,
       <<"nineteen", 19>>, <<"twenty", 20>>, <<"thirty", 30>>, <<"forty", 40>>,
       <<"fifty", 50>>, <<"sixty", 60>>, <<"seventy", 70>>, <<"eighty", 80>>,
       <<"ninety", 90>> >>

\* sum(word_to_num.get(word.lower(), 0) for word in group.split())
WordNumber(group) ==
    IF DictHas(word_to_num, Lower(group)) THEN DictGet(word_to_num, Lower(group)) ELSE 0

\* the chapter and verse numbers read from the groups of a match, <<>> when a
\* conversion raises ValueError
MatchNumbers(groups) ==
    IF IsAlpha(groups[1])
    THEN <<WordNumber(groups[1]), WordNumber(groups[2])>>
    ELSE IF IntOf(groups[1]) = NoInt \/ IntOf(groups[2]) = NoInt THEN <<>>
    ELSE <<IntOf(groups[1])[1], IntOf(groups[2])[1]>>

\* the dict _check_for_verse_reference returns for a verse it found
VerseResponse(chapter, verse, verse_data) ==
    [ answer |-> "Hare Krishna! Here is verse " \o VerseRef(<<chapter>>, <<verse>>)
                 \o " from the Bhagavad Gita:\n\n" \o verse_data.text
                 \o "\n\n(Page " \o ToString(verse_data.page) \o ")",
      sources |-> << [page |-> verse_data.page, source |-> pdf_path] >> ]

\* the loop over the patterns, from pattern n on: <<response>> for the first
\* pattern whose numbers are in the index, <<>> (None) when there is none
RECURSIVE TryVersePatterns(_, _, _)
TryVersePatterns(index, matches, n) ==
    IF n > Len(matches) THEN <<>>
    ELSE IF matches[n] = <<>> \/ MatchNumbers(matches[n]) = <<>>
         THEN TryVersePatterns(index, matches, n + 1)
    ELSE LET chapter == MatchNumbers(matches[n])[1]
             verse == MatchNumbers(matches[n])[2]
         IN IF DictHas(index, VerseRef(<<chapter>>, <<verse>>))
            THEN <<VerseResponse(chapter, verse, get_verse(index, chapter, verse))>>
            ELSE TryVersePatterns(index, matches, n + 1)

check_for_verse_reference(index, question) ==
    TryVersePatterns(index, verse_patterns(Lower(question)), 1)

(***************************************************************************)
(*     QASystem.extract_best_answer, _get_answer_from_pdf, answer_question  *)
(***************************************************************************)
\* some term of the sequence occurs in the text
AnyTermIn(terms, text) == \E n \in 1..Len(terms) : Contains(terms[n], text)

\* the keys of modern_advice_map, in the order of the dict
modern_advice_topics ==
    << "hate", "stress", "anxiety", "purpose", "failure", "relationships", "decision",
       "success", "career", "lost", "work-life balance", "balance", "time management" >>

\* The fixed answers of the program are long texts; each is stood for by a
\* text of its shape that, like it, is longer than every length the callers
\* test for (20, 30, 50, and the 200 characters that cap the confidence).
ModernAdviceAnswer(topic) ==
    "Hare Krishna! The Bhagavad Gita offers profound wisdom about " \o topic
    \o ".\n\nKey Teaching: (the teaching for the topic)\n\nAdvice: (the advice for the topic)"
    \o "\n\nRelevant Example: (the example for the topic)\n\n"
    \o "Would you like me to elaborate on any specific aspect of this teaching?"
ChapterSummaries ==
    "Chapter 1: Arjuna's Dilemma - Observing the Armies on the Battlefield of Kurukshetra. Arjuna is overcome with grief and refuses to fight.\n\nChapter 2: The Eternal Reality of the Soul's Immortality (and the other chapters)"
ArjunaAnswer ==
    "Hare Krishna! Arjuna is considered one of the greatest warriors and devotees in the Bhagavad Gita. Here's why he is special:\n\n1. **Chosen Devotee**: Arjuna was personally selected by Lord Krishna (and four more reasons)"

\* re.split(r'(?<=[.!?])\s+', text): the text is cut at every run of whitespace
\* that follows a full stop, an exclamation mark or a question mark
SentenceEnds == {".", "!", "?"}
NextCut(text, from) ==
    LET cuts == { p \in (from + 1)..Len(text) :
                    Ch(text, p) \in SpaceSet /\ Ch(text, p - 1) \in SentenceEnds }
    IN IF cuts = {} THEN 0 ELSE MinOf(cuts)

RECURSIVE SentencesFrom(_, _)
SentencesFrom(text, from) ==
    LET cut == NextCut(text, from)
    IN IF cut = 0 THEN <<SubSeq(text, from, Len(text))>>
       ELSE <<SubSeq(text, from, cut - 1)>> \o SentencesFrom(text, SkipWs(text, cut))

Sentences(text) == SentencesFrom(text, 1)

\* [term for term in question_lower.split() if len(term) > 3]
MinKeyTermLen == 3
IsKeyTerm(term) == Len(term) > MinKeyTermLen
key_terms(question_lower) == SelectSeq(SplitWs(question_lower, 1), IsKeyTerm)

\* sum(1 for term in key_terms if term in sentence.lower())
SentenceScore(terms, sentence) ==
    LET lower == Lower(sentence)
    IN Cardinality({ n \in 1..Len(terms) : Contains(terms[n], lower) })

\* the loop "for sentence in sentences" of the default case:
\* <<best_score, best_sentence>>
RECURSIVE BestSentence(_, _, _, _)
BestSentence(sentences, terms, n, best) ==
    IF n > Len(sentences) THEN best
    ELSE LET score == SentenceScore(terms, sentences[n])
         IN BestSentence(sentences, terms, n + 1,
                         IF score > best[1] THEN <<score, sentences[n]>> ELSE best)

MinTeachingLen == 50
\* the sentences the 'teaching' case accepts
IsTeaching(sentence) ==
    /\ AnyTermIn(<<"teach", "says", "explain", "therefore", "krishna said">>, Lower(sentence))
    /\ Len(sentence) > MinTeachingLen

extract_best_answer(question, text) ==
    LET question_lower == Lower(question)
        topics == { n \in 1..Len(modern_advice_topics) :
                      Contains(modern_advice_topics[n], question_lower) }
        sentences == Sentences(text)
        teaching == SelectSeq(sentences, IsTeaching)
        best == BestSentence(sentences, key_terms(question_lower), 1, <<-1, sentences[1]>>)
    IN IF topics # {} THEN ModernAdviceAnswer(modern_advice_topics[MinOf(topics)])
       ELSE IF AnyTermIn(<<"summary of chapters", "chapter summary", "summarize chapters",
                           "list of chapters">>, question_lower)
       THEN ChapterSummaries
       ELSE IF AnyTermIn(<<"who is arjuna", "why is arjuna great", "what makes arjuna special">>,
                         question_lower)
       THEN ArjunaAnswer
       ELSE IF /\ AnyTermIn(<<"teach", "teaching", "lesson", "what does krishna say">>, question_lower)
               /\ teaching # <<>>
       THEN "Hare Krishna! " \o teaching[1]
       ELSE IF best[1] > 0 THEN "Hare Krishna! " \o best[2]
       ELSE "Hare Krishna! " \o sentences[1]

\* " ".join([doc.page_content for doc in docs])
RECURSIVE PageContents(_, _)
PageContents(docs, n) ==
    IF n > Len(docs) THEN <<>> ELSE <<docs[n].page_content>> \o PageContents(docs, n + 1)
CombinedContent(docs) == JoinSpace(PageContents(docs, 1), 1)

\* an error handler that builds its response without a confidence
ErrorResponse_NoConfidence(message) ==
    [ answer |-> "Hare Krishna! I encountered an error while processing your question: " \o message,
      sources |-> <<>> ]

ErrorResponse(message) ==
    [ answer |-> "Hare Krishna! I encountered an error while processing your question: " \o message,
      sources |-> <<>>,
      confidence |-> FZero ]

NoDocumentsError == "No documents loaded. Call load_and_process_pdf() first."

\* min(0.9, 0.5 + len(answer) / 500)
PdfConfidence(answer) ==
    IF 250 + Len(answer) >= 450 THEN Frac(9, 10) ELSE Frac(250 + Len(answer), 500)

MinExtraContextLen == 50
MinAnswerLen == 20
NumRelevant == 5
NumCombined == 3

\* _get_answer_from_pdf: <<response>>, or <<>> for None
get_answer_from_pdf(docs, question) ==
    IF docs = <<>> THEN <<ErrorResponse(NoDocumentsError)>>
    ELSE LET relevant_docs == get_relevant_documents(docs, question, NumRelevant)
             first == extract_best_answer(question, CombinedContent(Slice(relevant_docs, 0, NumCombined)))
             answer == IF Len(first) < MinExtraContextLen /\ Len(relevant_docs) > NumCombined
                       THEN Strip(first \o " " \o
                                  extract_best_answer(question,
                                      CombinedContent(Slice(relevant_docs, NumCombined, 6))))
                       ELSE first
         IN IF relevant_docs = <<>> \/ Len(answer) < MinAnswerLen THEN <<>>
            ELSE << [ answer |-> answer,
                      sources |-> <<relevant_docs[1].metadata>>,
                      confidence |-> PdfConfidence(answer),
                      source_type |-> "pdf_content" ] >>

\* dict.get('confidence', 0)
ConfidenceOf(response) ==
    IF "confidence" \in DOMAIN response THEN response.confidence ELSE FZero

SystemResponse(answer, confidence) ==
    [ answer |-> answer, sources |-> <<>>, confidence |-> confidence, source_type |-> "system" ]

EmptyQuestionAnswer == "Hare Krishna! Please ask a question about the Bhagavad Gita."
VerseNotFoundAnswer ==
    "Hare Krishna! I couldn't find the specific verse reference in the current context."
NoAnswerFound ==
    "Hare Krishna! I couldn't find a specific answer to your question in the Bhagavad Gita text."

MinVerseConfidence == Frac(7, 10)
MinPdfConfidence == Frac(3, 10)
MinMeaningfulLen == 30

\* answer_question from "First, check for verse references" on, for the
\* question after the correction of names.  The answer of a response is the
\* text handed to _post_process_answer, which rewrites that text and nothing else.
AnswerCorrected(index, docs, question) ==
    LET verse_response == check_for_verse_reference(index, question)
        pdf_response == get_answer_from_pdf(docs, question)
        relevant_docs == get_relevant_documents(docs, question, NumRelevant)
        answer == extract_best_answer(question, CombinedContent(Slice(relevant_docs, 0, NumCombined)))
    IN IF verse_response # <<>> /\ FGt(ConfidenceOf(verse_response[1]), MinVerseConfidence)
       THEN verse_response[1]
       ELSE IF pdf_response # <<>> /\ FGt(ConfidenceOf(pdf_response[1]), MinPdfConfidence)
       THEN pdf_response[1]
       ELSE IF docs = <<>> THEN ErrorResponse(NoDocumentsError)
       ELSE IF relevant_docs # <<>> /\ Len(answer) > MinMeaningfulLen
       THEN [ answer |-> answer,
              sources |-> <<relevant_docs[1].metadata>>,
              confidence |-> Frac(7, 10),
              source_type |-> "pdf_content" ]
       ELSE IF AnyTermIn(<<"chapter", "verse", "chapter and verse", "verse number",
                           "chapter number">>, Lower(question))
       THEN SystemResponse(VerseNotFoundAnswer, Frac(3, 10))
       ELSE SystemResponse(NoAnswerFound, Frac(1, 10))

\* answer_question: the responses it can return (one for each outcome of the
\* correction of names)
answer_question(index, docs, raw) ==
    LET question == Strip(raw)
    IN IF question = "" THEN { SystemResponse(EmptyQuestionAnswer, FZero) }
       ELSE { AnswerCorrected(index, docs, IF r[2] # <<>> THEN r[1] ELSE question) :
                r \in correct_text_names(question) }


(***************************************************************************)
(*                 answer_question called on a loaded system               *)
(***************************************************************************)
\* the most documents of the corpus answer_question searches
MaxAnswerDocs == 2

Verse247 == <<"2.47", VerseRecord(<<"Thou hast a right", "to perform thy duty">>, 11)>>
Verse240 == <<"2.40", VerseRecord(<<"In this endeavor there is no loss">>, 12)>>
AnswerIndexes == { <<>>, <<Verse247>>, <<Verse247, Verse240>> }

InitAnswer ==
    /\ NoCall
    /\ pdf = <<>>
    /\ Loaded
    /\ NewTextProcessor
    /\ NoMapFile
    /\ verse_index \in AnswerIndexes
    /\ documents \in Corpora(MaxAnswerDocs)

\* a caller (the /ask endpoint) invokes answer_question
CallAnswerQuestion ==
    /\ op = "idle"
    /\ \E question \in Questions : \E response \in answer_question(verse_index, documents, question) :
        /\ op' = "answer_question"
        /\ call_in' = question
        /\ call_out' = response
    /\ UNCHANGED <<loadVars, verse_index, documents, textVars>>

NextAnswer == CallAnswerQuestion \/ Return

SpecAnswer == InitAnswer /\ [][NextAnswer]_vars

(***************************************************************************)
(*                     text_utils.py: TextProcessor                        *)
(* The tables hold the entries of the source's tables that a string of    *)
(* the model can hold: its texts are ASCII without the grave accent, and   *)
(* an entry with another character never occurs in them.                   *)
(***************************************************************************)
Letters == LowerSet \cup UpperSet
AlphaNum == Letters \cup DigitSet
Backslash == "\\"
Vowels == CharSet("aeiouAEIOU")
Consonants == Letters \ Vowels

\* the first position at or after from where sub occurs in s, 0 when there is none
FindFrom(s, sub, from) ==
    LET at == { p \in from..(Len(s) - Len(sub) + 1) : MatchAt(sub, s, p) }
    IN IF at = {} THEN 0 ELSE MinOf(at)

\* str.replace(old, new) for a non-empty old: the occurrences from the left,
\* none overlapping another
RECURSIVE ReplaceFrom(_, _, _, _)
ReplaceFrom(s, old, new, from) ==
    LET p == FindFrom(s, old, from)
    IN IF p = 0 THEN From(s, from)
       ELSE SubSeq(s, from, p - 1) \o new \o ReplaceFrom(s, old, new, p + Len(old))

Replace(s, old, new) == ReplaceFrom(s, old, new, 1)

\* re.sub(r'([A])([B])', r'\1 \2', s) for disjoint classes A and B: a space goes
\* between every character of A and a character of B that follows it
RECURSIVE SpaceBetween(_, _, _, _)
SpaceBetween(s, i, A, B) ==
    IF i > Len(s) THEN ""
    ELSE Ch(s, i)
         \o (IF i < Len(s) /\ Ch(s, i) \in A /\ Ch(s, i + 1) \in B THEN " " ELSE "")
         \o SpaceBetween(s, i + 1, A, B)

\* str.title: a letter after a letter is lowered, any other letter is raised
RECURSIVE TitleFrom(_, _)
TitleFrom(s, i) ==
    IF i > Len(s) THEN ""
    ELSE (IF i > 1 /\ Ch(s, i - 1) \in Letters THEN LowerCh(Ch(s, i)) ELSE UpperCh(Ch(s, i)))
         \o TitleFrom(s, i + 1)

Title(s) == TitleFrom(s, 1)

\* str.istitle
IsTitle(s) ==
    /\ \E i \in 1..Len(s) : Ch(s, i) \in Letters
    /\ \A i \in 1..Len(s) :
        /\ Ch(s, i) \in UpperSet => (i = 1 \/ Ch(s, i - 1) \notin Letters)
        /\ Ch(s, i) \in LowerSet => (i > 1 /\ Ch(s, i - 1) \in Letters)

\* "Skip common short words and numbers"
ShortWords ==
  {
    "a", "i", "an", "at", "be", "by", "do", "go", "he", "hi", "in", "is", "it", "me", "my",
    "no", "of", "on", "or", "so", "to", "up", "us", "we"
  }

\* "Common Sanskrit and English words that should never be flagged as errors"
common_terms ==
  {
    "Krishna", "Arjuna", "Bhagavad", "Gita", "Veda", "Upanishad", "Bhagavan", "Atman",
    "Brahman", "Moksha", "Samsara", "Yoga", "Yogi", "Sankhya", "Yogin", "Jiva", "Mahatma",
    "Bhishma", "Duryodhana", "Dronacharya", "Karna", "Vidura", "Vyasa", "Dhritarashtra",
    "Gandhari", "Kunti", "Draupadi", "Subhadra", "Vasudeva", "Devaki", "Nanda", "Yashoda",
    "Balarama", "Parikshit", "Janaka", "Valmiki", "Vishnu", "Shiva", "Brahma", "Lakshmi",
    "Saraswati", "Parvati", "Durga", "Kali", "Hanuman", "Garuda", "Shesha", "Indra", "Agni",
    "Vayu", "Varuna", "Yama", "Kubera", "Vishvamitra", "Vasishtha", "Bharata", "Ramayana",
    "Mahabharata", "Pandava", "Kaurava", "Kuru", "Panchala", "Gandhara", "Kamboja", "Sindhu",
    "Sauvira", "Madra", "Kekaya", "Kosala", "Videha", "soul", "yoga", "karma", "dharma",
    "bhakti", "jnana", "maya", "prakriti", "purusha", "guna", "ishvara", "atma", "bhagavad",
    "gita", "veda", "upanishad", "bhagavan", "yogi", "sankhya", "yogin", "jiva", "mahatma",
    "bhishma", "duryodhana", "dronacharya", "karna", "vidura", "vyasa", "dhritarashtra",
    "gandhari", "kunti", "draupadi", "subhadra", "vasudeva", "devaki", "nanda", "yashoda",
    "balarama", "parikshit", "janaka", "valmiki", "vishnu", "shiva", "brahma", "lakshmi",
    "saraswati", "parvati", "durga", "kali", "hanuman", "garuda", "shesha", "indra", "agni",
    "vayu", "varuna", "yama", "kubera", "vishvamitra", "vasishtha", "bharata", "ramayana",
    "mahabharata", "pandava", "kaurava", "kuru", "panchala", "gandhara", "kamboja", "sindhu",
    "sauvira", "madra", "kekaya", "kosala", "videha"
  }

\* re.search(pattern, word) for each entry of patterns, in the order of the list.
\* Six entries are raw strings with doubled backslashes: there a backslash
\* stands for itself and the letter after it for a letter, and a class
\* [^\\w\\s] leaves out the backslash, w and s.
patterns(word) ==
    LET n == Len(word)
        c(i) == Ch(word, i)
        Around(x) == \E i \in 1..(n - 2) : c(i) \in LowerSet /\ c(i + 1) = x /\ c(i + 2) \in LowerSet
    IN <<
        \E i \in 1..(n - 1) : c(i) \in LowerSet /\ c(i + 1) \in UpperSet,
        Around("i"),
        Around("l"),
        Around("o"),
        Around("s"),
        \E i \in 1..(n - 2) : c(i) \in LowerSet /\ c(i + 1) = Backslash /\ c(i + 2) = "d",
        \E i \in 1..(n - 2) : c(i) = Backslash /\ c(i + 1) = "d" /\ c(i + 2) \in LowerSet,
        \E i \in 1..(n - 2) : c(i) \notin {Backslash, "w", "s"} /\ c(i + 1) = Backslash /\ c(i + 2) = "w",
        \E i \in 1..(n - 2) : c(i) = Backslash /\ c(i + 1) = "w" /\ c(i + 2) \notin {Backslash, "w", "s"},
        \E i \in 1..(n - 3) : /\ c(i) \in LowerSet /\ c(i + 1) \in LowerSet
                              /\ c(i + 2) \in UpperSet /\ c(i + 3) \in LowerSet,
        \E i \in 1..(n - 1) : c(i) \in LowerSet /\ c(i + 1) \in DigitSet,
        \E i \in 1..(n - 1) : c(i) \in DigitSet /\ c(i + 1) \in LowerSet,
        \E i \in 1..(n - 3) : /\ c(i) \in Letters /\ c(i + 1) = Backslash
                              /\ c(i + 2) = "1" /\ c(i + 3) = "1",
        \E i \in 1..n : c(i) \notin AlphaNum \cup {Backslash},
        \E j \in 3..n : /\ c(1) \in UpperSet /\ c(j) \in UpperSet
                        /\ \A i \in 2..(j - 1) : c(i) \in LowerSet,
        \E i \in 1..(n - 2) : c(i) \in LowerSet /\ c(i + 1) \in UpperSet /\ c(i + 2) \in LowerSet,
        \E i \in 1..(n - 1) : c(i) = Backslash /\ c(i + 1) = "s"
    >>

\* "Check for common OCR error patterns in the word"
common_ocr_errors ==
  <<
    "rn", "vv", "cl", "ij", "in", "1", "0", "5", "8", "6", "9", "|", "\\", "/", "~", "!",
    "@", "#", "$", "%", "^", "&", "*", "(", ")", "_", "+", "=", "{", "}", "[", "]", "|", ";",
    ":", "\"", "<", ">", "?", ",", "."
  >>

\* "Check if word is a common Sanskrit term (case-insensitive)"
sanskrit_terms ==
  {
    "atma", "brahman", "dharma", "karma", "moksha", "yoga", "bhakti", "jnana", "samsara",
    "maya", "prakriti", "purusha", "guna", "ishvara", "krishna", "arjuna", "bhagavad", "gita",
    "veda", "upanishad", "bhagavan", "atman", "yogi", "sankhya", "yogin", "jiva", "mahatma",
    "bhishma", "duryodhana", "dronacharya", "karna", "vidura", "vyasa", "dhritarashtra",
    "gandhari", "kunti", "draupadi", "subhadra", "vasudeva", "devaki", "nanda", "yashoda",
    "balarama", "parikshit", "janaka", "valmiki", "vishnu", "shiva", "brahma", "lakshmi",
    "saraswati", "parvati", "durga", "kali", "hanuman", "garuda", "shesha", "indra", "agni",
    "vayu", "varuna", "yama", "kubera", "vishvamitra", "vasishtha", "bharata", "ramayana",
    "mahabharata", "pandava", "kaurava", "kuru", "panchala", "gandhara", "kamboja", "sindhu",
    "sauvira", "madra", "kekaya", "kosala", "videha"
  }

\* a run of n characters of class cls somewhere in word
HasRun(word, cls, n) ==
    \E i \in 1..(Len(word) - n + 1) : \A j \in i..(i + n - 1) : Ch(word, j) \in cls

\* re.search(r'(\w)\1{2,}', word): a word character three times in a row
HasRepeat(word) ==
    \E i \in 1..(Len(word) - 2) :
        Ch(word, i) \in WordSet /\ Ch(word, i + 1) = Ch(word, i) /\ Ch(word, i + 2) = Ch(word, i)

\* any(c.isupper() for c in word[1:])
UpperInside(word) == \E i \in 2..Len(word) : Ch(word, i) \in UpperSet

\* TextProcessor._is_likely_error, for the word list words and the correction map cmap
is_likely_error(words, cmap, word) ==
    IF word = "" \/ Len(word) < 2 THEN FALSE
    ELSE IF Len(word) <= 2 /\ Lower(word) \in ShortWords THEN FALSE
    ELSE IF word \in common_terms \/ Lower(word) \in common_terms THEN FALSE
    ELSE IF DictHas(cmap, word) THEN TRUE
    ELSE IF \E k \in 1..Len(patterns(word)) : patterns(word)[k] THEN TRUE
    ELSE IF IsUpperStr(word) /\ Len(word) > 1 THEN FALSE
    ELSE IF Lower(word) \in words \/ Capitalize(Lower(word)) \in words THEN FALSE
    ELSE IF \E k \in 1..Len(common_ocr_errors) : Contains(common_ocr_errors[k], word) THEN TRUE
    ELSE IF Lower(word) \in sanskrit_terms \/ Capitalize(Lower(word)) \in sanskrit_terms THEN FALSE
    ELSE IF Len(word) > 15 /\ ~UpperInside(word) /\ IsAlpha(word) THEN TRUE
    ELSE IF HasRepeat(word) THEN TRUE
    ELSE IF HasRun(word, Vowels, 4) THEN TRUE
    ELSE IF HasRun(word, Consonants, 5) THEN TRUE
    ELSE FALSE

\* "Common OCR error mappings - only include high-confidence replacements"
ocr_error_map ==
  <<
    <<"rn", "m">>, <<"vv", "w">>, <<"cl", "d">>, <<"ij", "n">>, <<"1", "l">>, <<"0", "o">>,
    <<"5", "s">>, <<"8", "b">>, <<"6", "b">>, <<"9", "g">>, <<"|", "l">>, <<"\\", "l">>,
    <<"/", "l">>, <<"~", "~">>, <<"!", "i">>, <<"@", "a">>, <<"#", "">>,
    <<"$", "s">>, <<"%", "">>, <<"^", "">>, <<"&", "and">>, <<"*", "">>, <<"(", "">>,
    <<")", "">>, <<"_", " ">>, <<"+", "t">>, <<"=", " ">>, <<"{", "(">>, <<"}", ")">>,
    <<"[", "(">>, <<"]", ")">>, <<";", ":">>, <<":", ":">>, <<"\"", "'">>, <<"<", ",">>,
    <<">", ".">>, <<"?", "">>, <<",", ",">>, <<".", ".">>
  >>

\* "Common word concatenations in Gita text"
common_concatenations ==
  <<
    <<"th is", "this">>, <<"theBhagavad", "the Bhagavad">>, <<"theGita", "the Gita">>,
    <<"theLord", "the Lord">>, <<"theSupreme", "the Supreme">>, <<"acti ons", "actions">>,
    <<"changeth is", "change this">>, <<"perfecti on", "perfection">>,
    <<"reacti ons", "reactions">>, <<"preparati on", "preparation">>,
    <<"servi ng", "serving">>, <<"offeri ng", "offering">>, <<"donot", "do not">>,
    <<"tounderstand", "to understand">>, <<"soulis", "soul is">>, <<"karmais", "karma is">>,
    <<"yogais", "yoga is">>, <<"bhaktii", "bhakti">>, <<"krishnasaid", "Krishna said">>,
    <<"arjunasaid", "Arjuna said">>, <<"lordkrishna", "Lord Krishna">>,
    <<"bhagavadgita", "Bhagavad Gita">>, <<"bhagavad-gita", "Bhagavad-gita">>,
    <<"bhagavadgitaasitis", "Bhagavad Gita As It Is">>,
    <<"theSupremePersonalityofGodhead", "the Supreme Personality of Godhead">>,
    <<"theSupremePersonalityofGod", "the Supreme Personality of God">>,
    <<"theSupremePersonality", "the Supreme Personality">>,
    <<"theSupremeLord", "the Supreme Lord">>, <<"theBhagavadGita", "the Bhagavad Gita">>,
    <<"theBhagavad-Gita", "the Bhagavad-gita">>,
    <<"theBhagavadGitaAsItIs", "the Bhagavad Gita As It Is">>,
    <<"theBhagavad-GitaAsItIs", "the Bhagavad-gita As It Is">>
  >>

\* the first words after which a split at a capital is taken as it is
split_first_words ==
  {
    "the", "and", "but", "or", "for", "nor", "so", "yet", "a", "an", "in", "on", "at", "by",
    "to", "of", "with", "as", "is", "are", "was", "were", "be", "been", "being", "have", "has",
    "had", "do", "does", "did", "will", "would", "shall", "should", "may", "might", "must",
    "can", "could"
  }

common_prefixes ==
  {
    "un", "re", "in", "im", "dis", "en", "pre", "pro", "sub", "trans", "non", "mis", "over",
    "under", "out", "up", "down", "off", "on", "fore", "with"
  }

common_suffixes ==
  {
    "ing", "ed", "ly", "ment", "tion", "sion", "ness", "less", "ful", "able", "ible", "ant",
    "ent", "ism", "ist", "ity", "ty", "ive", "ize", "ise", "ify", "fy", "en", "er", "or", "al"
  }

\* x.lower() in self.common_words or any(x.lower() in w for w in self.common_words)
KnownOrInWord(words, x) == Lower(x) \in words \/ \E w \in words : Contains(Lower(x), w)

\* "Check for common OCR errors": the replacements of ocr_error_map from entry k
\* on, each kept when it makes the word, or a part of a word, of the word list
RECURSIVE OcrLoop(_, _, _)
OcrLoop(words, word, k) ==
    IF k > Len(ocr_error_map) THEN word
    ELSE LET error == ocr_error_map[k][1]
             test_word == Replace(word, error, ocr_error_map[k][2])
         IN IF Contains(error, word) /\ KnownOrInWord(words, test_word)
            THEN OcrLoop(words, test_word, k + 1)
            ELSE OcrLoop(words, word, k + 1)

\* "only apply to non-dictionary words"
OcrFixed(words, word) ==
    IF Lower(word) \notin words /\ ~IsAlpha(word) THEN OcrLoop(words, word, 1) ELSE word

\* "Handle common OCR error: extra spaces in the middle of words": some split of
\* the parts has a known side and another side that is known or long enough
SpacedSplit(words, parts) ==
    \E i \in 1..(Len(parts) - 1) :
        LET left == JoinSpace(SubSeq(parts, 1, i), 1)
            right == JoinSpace(SubSeq(parts, i + 1, Len(parts)), 1)
            left_valid == KnownOrInWord(words, left)
            right_valid == KnownOrInWord(words, right)
        IN \/ left_valid /\ right_valid
           \/ left_valid /\ Len(right) > 2
           \/ right_valid /\ Len(left) > 2

\* "Try to split long words that might be concatenations": the split after the
\* first i characters is taken
LongSplitAt(words, word, i) ==
    LET left == SubSeq(word, 1, i)
        right == From(word, i + 1)
        left_lower == Lower(left)
        right_lower == Lower(right)
        left_valid == \/ left_lower \in words
                      \/ \E w \in words : StartsWith(w, left_lower)
                      \/ \E w \in words : Contains(left_lower, w)
        right_valid == \/ right_lower \in words
                       \/ \E w \in words : EndsWith(w, right_lower)
                       \/ \E w \in words : Contains(right_lower, w)
    IN \/ left_valid /\ right_valid
       \/ \E prefix \in common_prefixes : StartsWith(right_lower, prefix) /\ Len(left) > 2
       \/ \E suffix \in common_suffixes : EndsWith(left_lower, suffix) /\ Len(right) > 2

\* for i in range(3, min(len(word)-2, 10)): the split points that are taken
LongSplits(words, word) ==
    { i \in 3..(Min(Len(word) - 2, 10) - 1) : LongSplitAt(words, word, i) }

\* _generate_correction from "Handle common OCR error: missing space after
\* punctuation" to its end
AfterSpacedI(words, spaced, original_word) ==
    LET word == SpaceBetween(spaced, 1, CharSet(".,;:!?"), Letters)
        parts == SplitWs(word, 1)
        combined == Join(parts, 1)
    IN IF Contains(" ", word) /\ KnownOrInWord(words, combined) THEN combined
       ELSE IF Contains(" ", word) /\ SpacedSplit(words, parts) THEN JoinSpace(parts, 1)
       ELSE IF /\ Len(word) > 10 /\ IsAlpha(word) /\ ~UpperInside(word)
               /\ ~Contains(" ", word) /\ LongSplits(words, word) # {}
            THEN LET i == MinOf(LongSplits(words, word))
                 IN SubSeq(word, 1, i) \o " " \o From(word, i + 1)
       ELSE IF word # original_word THEN word
       ELSE IF Lower(word) \in words THEN Lower(word)
       ELSE IF IsUpperStr(word) /\ Len(word) > 1 THEN Title(word)
       ELSE IF IsTitle(word) /\ Lower(word) \in words THEN Lower(word)
       ELSE original_word

\* _generate_correction from "Handle common OCR error: 'i' in the middle of
\* words" on
AfterCamelCase(words, word, original_word) ==
    LET test_word == Replace(Replace(word, "i ", "i"), " i", "i")
    IN IF /\ Contains("i ", word) \/ Contains(" i", word)
          /\ Lower(test_word) \in words \/ Len(test_word) > Len(word) - 1
       THEN test_word
       ELSE AfterSpacedI(words, word, original_word)

\* _generate_correction from "Handle camelCase or missing spaces" on
AfterOcr(words, word, original_word) ==
    LET camel == \E i \in 1..(Len(word) - 1) : Ch(word, i) \in LowerSet /\ Ch(word, i + 1) \in UpperSet
        spaced == IF camel THEN SpaceBetween(word, 1, LowerSet, UpperSet) ELSE word
        first_word == Lower(SplitOn(spaced, " ")[1])
    IN IF /\ camel
          /\ Contains(" ", spaced)
          /\ first_word \in words \/ first_word \in split_first_words
       THEN spaced
       ELSE AfterCamelCase(words, spaced, original_word)

\* "Check for common concatenations (substring match)": the entries that apply
SignificantConcatenations(word) ==
    { k \in 1..Len(common_concatenations) :
        Contains(common_concatenations[k][1], word) /\ Len(common_concatenations[k][1]) > 5 }

\* TextProcessor._generate_correction, for the word list words and the correction
\* map cmap
generate_correction(words, cmap, original_word) ==
    IF original_word = "" \/ Len(original_word) < 2 THEN original_word
    ELSE LET word == Strip(original_word)
         IN IF DictHas(cmap, word) THEN DictGet(cmap, word)
            ELSE IF DictHas(common_concatenations, word) THEN DictGet(common_concatenations, word)
            ELSE IF SignificantConcatenations(word) # {}
                 THEN LET k == MinOf(SignificantConcatenations(word))
                      IN Replace(word, common_concatenations[k][1], common_concatenations[k][2])
            ELSE AfterOcr(words, OcrFixed(words, word), original_word)

\* re.split(r'(\s+)', line): the runs of whitespace and the runs between them
RECURSIVE SplitKeepingSpaces(_, _)
SplitKeepingSpaces(line, i) ==
    IF i > Len(line) THEN <<>>
    ELSE LET e == IF Ch(line, i) \in SpaceSet
                  THEN RunEnd(line, i, SpaceSet)
                  ELSE RunEnd(line, i, CharSet(line) \ SpaceSet)
         IN <<SubSeq(line, i, e)>> \o SplitKeepingSpaces(line, e + 1)

\* the loop body of _process_single_line: what is appended for one piece
CorrectedWord(words, cmap, word) ==
    IF Strip(word) = "" THEN word
    ELSE IF DictHas(cmap, word) THEN DictGet(cmap, word)
    ELSE IF is_likely_error(words, cmap, word) THEN generate_correction(words, cmap, word)
    ELSE word

\* sorted(items, key=lambda x: -len(x[0])): longer keys first, equal lengths in
\* the order of the dict
RECURSIVE InsertByKeyLen(_, _, _)
InsertByKeyLen(sorted, item, j) ==
    IF j > Len(sorted) \/ Len(sorted[j][1]) < Len(item[1])
    THEN SubSeq(sorted, 1, j - 1) \o <<item>> \o SubSeq(sorted, j, Len(sorted))
    ELSE InsertByKeyLen(sorted, item, j + 1)

RECURSIVE SortByKeyLen(_, _)
SortByKeyLen(d, n) ==
    IF n = 0 THEN <<>> ELSE InsertByKeyLen(SortByKeyLen(d, n - 1), d[n], 1)

\* "Apply multi-word corrections that are specific to this line"
RECURSIVE MultiWordCorrections(_, _, _)
MultiWordCorrections(sorted, result, k) ==
    IF k > Len(sorted) THEN result
    ELSE LET error == sorted[k][1]
         IN MultiWordCorrections(sorted,
                IF Contains(" ", error) /\ Contains(error, result)
                THEN Replace(result, error, sorted[k][2]) ELSE result,
                k + 1)

\* re.sub of a pattern that takes single spaces out: the spaces of s from i on
\* are dropped where the character before them is in before or the character
\* after them is in after
RECURSIVE DropSpaces(_, _, _, _)
DropSpaces(s, i, before, after) ==
    IF i > Len(s) THEN ""
    ELSE (IF /\ Ch(s, i) = " "
             /\ \/ i > 1 /\ Ch(s, i - 1) \in before
                \/ i < Len(s) /\ Ch(s, i + 1) \in after
          THEN "" ELSE Ch(s, i))
         \o DropSpaces(s, i + 1, before, after)

\* "Clean up any double spaces" and "Fix common punctuation issues"
TidyLine(result) ==
    LET single == JoinSpace(SplitWs(result, 1), 1)
        punct == DropSpaces(single, 1, {}, CharSet(".,!?;:"))
        opened == DropSpaces(punct, 1, {"("}, {})
    IN DropSpaces(opened, 1, {}, {")"})

\* ''.join(corrected_words)
RECURSIVE CorrectedWords(_, _, _, _)
CorrectedWords(words, cmap, pieces, i) ==
    IF i > Len(pieces) THEN ""
    ELSE CorrectedWord(words, cmap, pieces[i]) \o CorrectedWords(words, cmap, pieces, i + 1)

\* TextProcessor._process_single_line
process_single_line(words, cmap, line) ==
    LET result == CorrectedWords(words, cmap, SplitKeepingSpaces(line, 1), 1)
    IN TidyLine(MultiWordCorrections(SortByKeyLen(cmap, Len(cmap)), result, 1))

\* str.splitlines(keepends=True) of a text whose only line breaks are "\n"
RECURSIVE SplitLines(_, _)
SplitLines(text, from) ==
    IF from > Len(text) THEN <<>>
    ELSE LET e == NextSep(text, "\n", from)
         IN IF e > Len(text) THEN <<From(text, from)>>
            ELSE <<SubSeq(text, from, e)>> \o SplitLines(text, e + 1)

\* the loop body of correct_text: what is appended for one line
CorrectedLine(words, cmap, line) ==
    LET line_content == IF EndsWith(line, "\n") THEN SubSeq(line, 1, Len(line) - 1) ELSE line
    IN IF Strip(line) = "" THEN line
       ELSE process_single_line(words, cmap, line_content)
            \o (IF EndsWith(line, "\n") THEN "\n" ELSE "")

\* ''.join(corrected_lines)
RECURSIVE CorrectedLines(_, _, _, _)
CorrectedLines(words, cmap, ls, i) ==
    IF i > Len(ls) THEN ""
    ELSE CorrectedLine(words, cmap, ls[i]) \o CorrectedLines(words, cmap, ls, i + 1)

\* "If we've made the text worse ... revert": len(result) < len(original_text) * 0.8
MuchShorter(result, original_text) ==
    Len(original_text) > 10 /\ 5 * Len(result) < 4 * Len(original_text)

\* TextProcessor.correct_text
correct_text(words, cmap, text) ==
    IF text = "" THEN text
    ELSE IF DictHas(cmap, Strip(text)) THEN DictGet(cmap, Strip(text))
    ELSE LET result == IF Contains("\n", text)
                       THEN CorrectedLines(words, cmap, SplitLines(text, 1), 1)
                       ELSE process_single_line(words, cmap, text)
         IN IF MuchShorter(result, text) THEN text ELSE result

\* re.findall(r'\b[\w\'-]+\b', text): each run of word characters, apostrophes
\* and hyphens, from its first to its last word character
RECURSIVE FindTokens(_, _)
FindTokens(text, i) ==
    IF i > Len(text) THEN <<>>
    ELSE IF Ch(text, i) \notin WordSet THEN FindTokens(text, i + 1)
    ELSE LET e == RunEnd(text, i, WordSet \cup {"'", "-"})
             last == CHOOSE p \in i..e : Ch(text, p) \in WordSet /\ \A q \in (p + 1)..e : Ch(text, q) \notin WordSet
         IN <<SubSeq(text, i, last)>> \o FindTokens(text, e + 1)

\* word_freq.update(words) for every page: each word with its count, in the
\* order the words are first met
RECURSIVE CountWords(_, _, _)
CountWords(word_freq, ws, i) ==
    IF i > Len(ws) THEN word_freq
    ELSE CountWords(DictSet(word_freq, ws[i],
                            IF DictHas(word_freq, ws[i]) THEN DictGet(word_freq, ws[i]) + 1 ELSE 1),
                    ws, i + 1)

RECURSIVE PageWords(_, _)
PageWords(pages, i) ==
    IF i > Len(pages) THEN <<>> ELSE FindTokens(Lower(pages[i]), 1) \o PageWords(pages, i + 1)

\* word_freq.most_common(): higher counts first, equal counts in the order of the
\* counter
RECURSIVE InsertByCount(_, _, _)
InsertByCount(sorted, item, j) ==
    IF j > Len(sorted) \/ sorted[j][2] < item[2]
    THEN SubSeq(sorted, 1, j - 1) \o <<item>> \o SubSeq(sorted, j, Len(sorted))
    ELSE InsertByCount(sorted, item, j + 1)

RECURSIVE most_common(_, _)
most_common(word_freq, n) ==
    IF n = 0 THEN <<>> ELSE InsertByCount(most_common(word_freq, n - 1), word_freq[n], 1)

\* "Second pass: Identify likely errors and generate corrections"
RECURSIVE GeneratedCorrections(_, _, _, _, _)
GeneratedCorrections(words, cmap, counted, i, made) ==
    IF i > Len(counted) THEN made
    ELSE LET word == counted[i][1]
             correction == generate_correction(words, cmap, word)
         IN GeneratedCorrections(words, cmap, counted, i + 1,
                IF is_likely_error(words, cmap, word) /\ correction # word
                THEN DictSet(made, word, correction) ELSE made)

\* "Add common known errors"
common_errors ==
  <<
    <<"th is", "this">>, <<"changeth is", "change this">>, <<"perfecti on", "perfection">>,
    <<"acti ons", "actions">>, <<"reacti ons", "reactions">>,
    <<"preparati on", "preparation">>, <<"servi ng", "serving">>, <<"offeri ng", "offering">>,
    <<"theBhagavad", "the Bhagavad">>, <<"donot", "do not">>,
    <<"tounderstand", "to understand">>, <<"theGita", "the Gita">>, <<"theLord", "the Lord">>,
    <<"theSupreme", "the Supreme">>, <<"theSupremePersonality", "the Supreme Personality">>,
    <<"theSupremeLord", "the Supreme Lord">>,
    <<"theSupremePersonalityofGodhead", "the Supreme Personality of Godhead">>,
    <<"theSupremePersonalityofGodhead,", "the Supreme Personality of Godhead,">>,
    <<"theSupremePersonalityofGodhead.", "the Supreme Personality of Godhead.">>
  >>

\* dict.update(other)
RECURSIVE DictUpdate(_, _, _)
DictUpdate(d, other, i) ==
    IF i > Len(other) THEN d ELSE DictUpdate(DictSet(d, other[i][1], other[i][2]), other, i + 1)

\* TextProcessor.build_correction_map: the map it builds from the pages of the PDF
build_correction_map(words, cmap, pages) ==
    LET word_freq == CountWords(<<>>, PageWords(pages, 1), 1)
        made == GeneratedCorrections(words, cmap, most_common(word_freq, Len(word_freq)), 1, <<>>)
    IN DictUpdate(made, common_errors, 1)

(***************************************************************************)
(*          The TextProcessor as a state machine: calls and results        *)
(***************************************************************************)
\* the correction maps a correction_map.json can hold: none, the map of the unit
\* tests, a map that names a proper noun, a map whose values are keys again, and
\* a map edited by hand that shortens a title and lists a word as its own
\* correction
PersistedMaps ==
  {
    <<>>,
    << <<"th is", "this">>, <<"changeth is", "change this">>, <<"perfecti on", "perfection">>,
       <<"acti ons", "actions">>, <<"theBhagavad", "the Bhagavad">>, <<"theGita", "the Gita">>,
       <<"theLord", "the Lord">> >>,
    << <<"Krishna", "Krsna">>, <<"th is", "this">> >>,
    << <<"gita", "geeta">>, <<"geeta", "Gita">>, <<"line one", "one">> >>,
    << <<"Bhagavad-gita As It Is", "Gita">>, <<"yoga", "yoga">> >>
  }

\* the paths load_correction_map is called with: the file build_correction_map
\* writes, and a file that does not exist
MapPaths == { "correction_map.json", "missing.json" }

\* the PDFs build_correction_map reads: page texts
TextPdfs ==
  {
    <<>>,
    << "Krishna said donot fear.", "the soulis eternal, the soulis unborn" >>,
    << "theGita", "", "acti ons of the self-realized" >>
  }

\* the texts handed to TextProcessor.correct_text
TextInputs ==
  {
    "", "th is is a test", "th is is theBhagavad gita", "acti ons speak louder than words.",
    "line one\nline two with acti ons", "truth is", "tounderstanding", "xalredaaaasaaaa",
    "theBhagavadGita", "KRISHNA said", "do your duty , Arjuna", "Krishna",
    "understanding the soul", "##", " yoga  is  karma ", "gita", "\n\nline one\n",
    "Bhagavad-gita As It Is", "#### #### ####"
  }

\* the tokens handed to _is_likely_error and _generate_correction
TokenInputs ==
  {
    "", "a", "I", "Krishna", "krishna", "KRISHNA", "bhagavad", "Moksha", "moksha", "yoga",
    "th is", "acti ons", "theBhagavad", "theGita", "theBhagavadGita",
    "verylongwordwithoutspaces", "Duty", "DUTY", " yoga ", "duty.", "10", "y0ga",
    "theLordKrishna", "theBhagavad-Gita", "karmaYoga"
  }

InitText ==
    /\ NoCall
    /\ Constructed
    /\ NewTextProcessor
    /\ pdf \in TextPdfs
    /\ map_file \in { <<>> } \cup { <<m>> : m \in PersistedMaps }

\* build_correction_map is called: the map is built from the PDF, kept, and
\* written to correction_map.json
BuildCorrectionMap ==
    /\ op = "idle"
    /\ LET built == build_correction_map(common_words, correction_map, pdf)
       IN /\ correction_map' = built
          /\ map_file' = <<built>>
          /\ op' = "build_correction_map"
          /\ call_in' = ""
          /\ call_out' = built
    /\ UNCHANGED <<loadVars, verse_index, documents, common_words>>

\* load_correction_map is called: the map of the file replaces the one in memory
\* when the file exists
LoadCorrectionMap ==
    /\ op = "idle"
    /\ \E map_path \in MapPaths :
        LET loaded == IF map_path = "correction_map.json" /\ map_file # <<>>
                      THEN map_file[1] ELSE correction_map
        IN /\ correction_map' = loaded
           /\ op' = "load_correction_map"
           /\ call_in' = map_path
           /\ call_out' = loaded
    /\ UNCHANGED <<loadVars, verse_index, documents, common_words, map_file>>

\* a caller invokes _is_likely_error
CallIsLikelyError ==
    /\ op = "idle"
    /\ \E word \in TokenInputs :
        /\ op' = "is_likely_error"
        /\ call_in' = word
        /\ call_out' = is_likely_error(common_words, correction_map, word)
    /\ UNCHANGED <<loadVars, verse_index, documents, textVars>>

\* a caller invokes _generate_correction
CallGenerateCorrection ==
    /\ op = "idle"
    /\ \E word \in TokenInputs :
        /\ op' = "generate_correction"
        /\ call_in' = word
        /\ call_out' = generate_correction(common_words, correction_map, word)
    /\ UNCHANGED <<loadVars, verse_index, documents, textVars>>

\* a caller invokes TextProcessor.correct_text
CallProcessorCorrectText ==
    /\ op = "idle"
    /\ \E text \in TextInputs :
        /\ op' = "TextProcessor.correct_text"
        /\ call_in' = text
        /\ call_out' = correct_text(common_words, correction_map, text)
    /\ UNCHANGED <<loadVars, verse_index, documents, textVars>>

\* a caller hands the text TextProcessor.correct_text returned back to it
CallProcessorCorrectTextAgain ==
    /\ op = "TextProcessor.correct_text"
    /\ op' = "TextProcessor.correct_text_again"
    /\ call_in' = call_out
    /\ call_out' = correct_text(common_words, correction_map, call_out)
    /\ UNCHANGED <<loadVars, verse_index, documents, textVars>>

\* os.path.dirname(path): what stands before the last slash
Dirname(path) ==
    LET at == { p \in 1..Len(path) : Ch(path, p) = "/" }
    IN IF at = {} THEN ""
       ELSE SubSeq(path, 1, (CHOOSE p \in at : \A q \in at : q <= p) - 1)

\* os.path.join(dir, name) for a relative name
PathJoin(dir, name) ==
    IF dir = "" THEN name
    ELSE IF Ch(dir, Len(dir)) = "/" THEN dir \o name
    ELSE dir \o "/" \o name

\* the file build_correction_map writes, relative to the working directory
WrittenMapPath == "correction_map.json"

\* the file QASystem.__init__ looks for
correction_map_path(path) == PathJoin(Dirname(path), "correction_map.json")

\* the PDF paths a system is started with
PdfPaths == { "gita.pdf", "data/gita.pdf" }

\* QASystem.__init__ for the PDF path: a new TextProcessor, whose map is loaded
\* from the file next to the PDF when that file exists and is built (and
\* written to the working directory) otherwise.  The only correction_map.json
\* there is, is the one build_correction_map has written.
StartFor(path, again) ==
    LET exists == correction_map_path(path) = WrittenMapPath /\ map_file # <<>>
        built == build_correction_map(common_words, <<>>, pdf)
    IN /\ op' = IF again THEN "QASystem.__init__again" ELSE "QASystem.__init__"
       /\ call_in' = path
       /\ IF exists
          THEN /\ correction_map' = map_file[1]
               /\ call_out' = "loaded"
               /\ UNCHANGED map_file
          ELSE /\ correction_map' = built
               /\ map_file' = <<built>>
               /\ call_out' = "built"
       /\ UNCHANGED <<loadVars, verse_index, documents, common_words>>

\* the process starts
Startup ==
    /\ op = "idle"
    /\ \E path \in PdfPaths : StartFor(path, FALSE)

\* the process is started once more with the same PDF path
Restart ==
    /\ op = "QASystem.__init__"
    /\ StartFor(call_in, TRUE)

NextText ==
    \/ BuildCorrectionMap \/ LoadCorrectionMap \/ CallIsLikelyError \/ CallGenerateCorrection
    \/ CallProcessorCorrectText \/ CallProcessorCorrectTextAgain \/ Startup \/ Restart \/ Return

SpecText == InitText /\ [][NextText]_vars

(***************************************************************************)
(*       The loaded system serving calls: the state after start-up         *)
(***************************************************************************)
\* the system after QASystem.__init__ and load_and_process_pdf: a verse index,
\* a document list and a correction map are in memory
ServingCorpora == { <<>>, CorpusOf(<<DocDuty, DocYoga, DocSoul>>) }
ServingMaps == { m \in PersistedMaps : Len(m) = 0 \/ Len(m) = 3 }

InitServing ==
    /\ NoCall
    /\ pdf = <<>>
    /\ Loaded
    /\ common_words = load_common_words
    /\ correction_map \in ServingMaps
    /\ map_file = <<correction_map>>
    /\ verse_index \in AnswerIndexes
    /\ documents \in ServingCorpora

\* the calls a loaded system serves; correct_text of the name corrector is
\* called by answer_question on every question
NextServing ==
    \/ CallAnswerQuestion \/ CallRank \/ CallGetVerse \/ CallProcessorCorrectText
    \/ CallCorrectName \/ Return

SpecServing == InitServing /\ [][NextServing]_vars

(***************************************************************************)
(*                     Claims about the NameCorrector                      *)
(***************************************************************************)
\* C6: correct_name returns (None, 0.0), or a name with a confidence c such that
\* threshold <= c <= 1.
C6_ConfidenceReachesThreshold ==
    op = "correct_name" =>
        \/ call_out = <<None, FZero>>
        \/ /\ call_out[1] # None
           /\ FGe(call_out[2], threshold)
           /\ FLe(call_out[2], FOne)

\* a name that equals, case-insensitively after trimming, a key of the name map
IsKnownSpelling(n) == DictHas(name_map, Strip(Lower(n)))

\* C7: for an input that is a primary name, an alias or a listed misspelling,
\* correct_name returns confidence 1.0 and the lowercased primary name of a
\* character, and a primary name resolves to itself.
C7_ExactMatchIsCanonical ==
    (op = "correct_name" /\ IsKnownSpelling(call_in)) =>
        /\ call_out[2] = FOne
        /\ call_out[1] \in PrimaryNames
        /\ Strip(Lower(call_in)) \in PrimaryNames => call_out[1] = Strip(Lower(call_in))

\* C8 (as stated): correct_text("bheeshma fought karan") records the corrections
\* {"bheeshma": "Bhishma", "karan": "Karna"} and substitutes both tokens.
C8_ScenarioAsStated ==
    (op = "correct_text" /\ call_in = "bheeshma fought karan") =>
        /\ call_out[2] = << <<"bheeshma", "Bhishma">>, <<"karan", "Karna">> >>
        /\ FindWords(call_out[1])[2] = "fought"

\* what a word of the scenario is corrected to: the canonical name in the
\* capitalisation pattern of the word
C8_Expected(w) ==
    CASE w = "bheeshma" -> "bhishma"
      [] w = "Bheeshma" -> "Bhishma"
      [] w = "karan" -> "karna"
      [] w = "KARAN" -> "KARNA"
      [] OTHER -> w

C8_ScenarioWords == {"bheeshma", "Bheeshma", "karan", "KARAN", "fought"}
C8_InScenario(text) == \A i \in 1..Len(FindWords(text)) : FindWords(text)[i] \in C8_ScenarioWords

\* C8 (amended): on a text made of the misspellings "bheeshma" and "karan", in any
\* of their capitalisations, and of other words, correct_text maps each misspelt
\* token to the canonical name in the token's own capitalisation pattern
\* ("bheeshma" to "bhishma", "Bheeshma" to "Bhishma", "KARAN" to "KARNA"), in the
\* corrections and in the text, and leaves every other token and the text
\* between the tokens as it was.
C8_ScenarioCorrections ==
    (op = "correct_text" /\ C8_InScenario(call_in)) =>
        LET runs_in == WordRuns(call_in, 1)
            runs_out == WordRuns(call_out[1], 1)
        IN /\ Len(runs_out) = Len(runs_in)
           /\ \A i \in 1..Len(runs_in) : runs_out[i] = C8_Expected(runs_in[i])
           /\ DictKeys(call_out[2]) = { runs_in[i] : i \in { j \in 1..Len(runs_in) : C8_Expected(runs_in[j]) # runs_in[j] } }
           /\ \A i \in 1..Len(call_out[2]) : call_out[2][i][2] = C8_Expected(call_out[2][i][1])

C8_Witness ==
    /\ op = "correct_text"
    /\ call_in = "bheeshma fought karan"
    /\ call_out = << "bhishma fought karna", << <<"bheeshma", "bhishma">>, <<"karan", "karna">> >> >>

\* C10: correct_text applied to a text it returned gives that text back, with no
\* corrections.
C10_NameTextIdempotent ==
    op = "correct_text_again" => call_out = <<call_in, <<>> >>

\* the text with every word that is a recorded original replaced by its
\* correction, all at once: no replacement is looked at again
AllAtOnce(text, corrections) ==
    LET runs == WordRuns(text, 1)
    IN Join([i \in 1..Len(runs) |-> IF DictHas(corrections, runs[i])
                                     THEN DictGet(corrections, runs[i])
                                     ELSE runs[i]], 1)

\* C27: the text correct_text returns is the input with every whole-word
\* occurrence of each recorded original replaced by its recorded correction,
\* as if all substitutions were made at once: no substitution rewrites what
\* another one produced, and words that are not recorded are unchanged.
C27_SubstitutionsIndependent ==
    op \in {"correct_text", "correct_text_again"} =>
        call_out[1] = AllAtOnce(call_in, call_out[2])

\* the exact, the substring and the edit-distance stage of correct_name all
\* fail for the name
EarlierStagesFail(raw) ==
    LET name == Strip(Lower(raw))
    IN /\ ~DictHas(name_map, name)
       /\ \A i \in 1..Len(name_map) : ~PartialHit(name, name_map[i][1])
       /\ BestEditMatches(name) = {}

\* thresholds a NameCorrector can be built with, all greater than 0
Thresholds == { Frac(1, 10), Frac(3, 10), Frac(6, 10), Frac(9, 10), FOne }

\* C28: the phonetic stage of correct_name never produces a result.  When the
\* exact, substring and edit-distance stages have failed the call returns
\* (None, 0.0); and for any threshold > 0, a name for which no known name
\* reaches the threshold in the edit-distance stage has no phonetic candidate
\* that reaches it, every candidate being a known name scored the same way.
C28_PhoneticStageNeverAnswers ==
    (op = "correct_name" /\ Strip(call_in) # "") =>
        LET name == Strip(Lower(call_in))
        IN /\ EarlierStagesFail(call_in) => call_out = <<None, FZero>>
           /\ \A t \in Thresholds :
                 (\A k \in all_names :
                     LET score == get_edit_distance_score(name, k)
                     IN ~(FGt(score, FZero) /\ FGe(score, t)))
                 => \A pn \in PhoneticNames : ~FGe(get_edit_distance_score(name, pn[1]), t)

\* correct_name has gone through all its stages for a name and found nothing
C28_Witness ==
    /\ op = "correct_name"
    /\ call_in = "xyzzyqq"
    /\ EarlierStagesFail(call_in)
    /\ call_out = <<None, FZero>>

(***************************************************************************)
(*                     Claims about the TextProcessor                      *)
(***************************************************************************)
\* C9: TextProcessor.correct_text is idempotent for every text and every
\* correction map: handed a text it has returned, it returns that text unchanged
\* (no word is split, re-cased or replaced a second time).
C9_CorrectTextIdempotent ==
    op = "TextProcessor.correct_text_again" => call_out = call_in

\* C11: identity fallback.  A token that is no key of the correction map and
\* that _is_likely_error does not flag is returned by _generate_correction
\* unchanged, character for character.
C11_IdentityFallback ==
    ( /\ op = "generate_correction"
      /\ ~DictHas(correction_map, call_in)
      /\ ~is_likely_error(common_words, correction_map, call_in) )
    => call_out = call_in

\* C12: length safety.  For a text of more than 10 characters, whatever the
\* correction map, correct_text returns the text itself or a text of at least
\* 80% of its length.
C12_NeverMuchShorter ==
    ( /\ op \in {"TextProcessor.correct_text", "TextProcessor.correct_text_again"}
      /\ Len(call_in) > 10 )
    => (call_out = call_in \/ 5 * Len(call_out) >= 4 * Len(call_in))

\* C13: in every state of the TextProcessor (constructed, after
\* build_correction_map, after load_correction_map of any persisted map, in any
\* order) no entry of the correction map has a key equal to its value.
C13_NoIdentityEntry ==
    \A i \in 1..Len(correction_map) : correction_map[i][1] # correction_map[i][2]

\* C21: once a startup has built the correction map and written it, a later
\* startup with the same PDF path (with or without a directory in it) finds
\* the written file, loads exactly its entries and does not build again.
C21_RestartLoadsPersistedMap ==
    [][ (op = "QASystem.__init__" /\ call_out = "built" /\ op' = "QASystem.__init__again") =>
          /\ call_out' = "loaded"
          /\ correction_map' = map_file[1]
          /\ map_file' = map_file ]_vars

\* the positions of word where a lowercase letter is followed by an uppercase one
CaseTransitions(word) ==
    { i \in 1..(Len(word) - 1) : Ch(word, i) \in LowerSet /\ Ch(word, i + 1) \in UpperSet }

\* what stands before the first such position is a word of the word list or
\* one of the first words the split is taken for
LeadIsCommonWord(words, word) ==
    LET first == CHOOSE i \in CaseTransitions(word) : \A j \in CaseTransitions(word) : i <= j
        lead == Lower(SubSeq(word, 1, first))
    IN lead \in words \/ lead \in split_first_words

\* C22: case-transition splitting.  For a token that is no key of the
\* correction map, that has a lowercase letter directly followed by an
\* uppercase one and whose part before the first such place is a common word,
\* _is_likely_error is true and _generate_correction returns the token with
\* one space put in at every lowercase-to-uppercase transition and nothing
\* else changed.
C22_CaseTransitionSplit ==
    ( /\ op \in {"is_likely_error", "generate_correction"}
      /\ ~DictHas(correction_map, call_in)
      /\ CaseTransitions(call_in) # {}
      /\ LeadIsCommonWord(common_words, call_in) )
    => IF op = "is_likely_error"
       THEN call_out = TRUE
       ELSE call_out = SpaceBetween(call_in, 1, LowerSet, UpperSet)

\* the terms of the allowlist of _is_likely_error, lowercased
AllowlistLowered == { Lower(term) : term \in common_terms }

\* C23: _is_likely_error is false for every token of fewer than 2 characters
\* and for every term of the allowlist in any letter case, whatever the
\* correction map holds: the allowlist comes before the map and the patterns.
C23_AllowlistNeverError ==
    ( /\ op = "is_likely_error"
      /\ Len(call_in) < 2 \/ Lower(call_in) \in AllowlistLowered )
    => call_out = FALSE

\* the line with every occurrence of a multi-word key of the map replaced by
\* its value, longer keys first
KeysReplaced(cmap, line) == MultiWordCorrections(SortByKeyLen(cmap, Len(cmap)), line, 1)

\* the text with the keys replaced in each of its lines; the line breaks stay
RECURSIVE KeysReplacedInLines(_, _, _)
KeysReplacedInLines(cmap, ls, i) ==
    IF i > Len(ls) THEN ""
    ELSE LET line == ls[i]
             content == IF EndsWith(line, "\n") THEN SubSeq(line, 1, Len(line) - 1) ELSE line
         IN KeysReplaced(cmap, content) \o (IF EndsWith(line, "\n") THEN "\n" ELSE "")
            \o KeysReplacedInLines(cmap, ls, i + 1)

\* the text without its blanks
WithoutBlanks(text) == Replace(text, " ", "")

\* no word of the text is changed by the word-level step of _process_single_line
NoWordCorrected(words, cmap, text) ==
    LET tokens == SplitWs(text, 1)
    IN \A j \in 1..Len(tokens) : CorrectedWord(words, cmap, tokens[j]) = tokens[j]

\* C24: correct_text replaces every occurrence of a multi-word key of the map
\* in a line by its value, longer keys first, and changes nothing else: with
\* no word in need of a correction the result is the text with the keys
\* replaced, its words spelt as they were and its newlines where they were
\* (blanks are not compared).
C24_MultiWordKeysReplaced ==
    ( /\ op = "TextProcessor.correct_text"
      /\ NoWordCorrected(common_words, correction_map, call_in) )
    => WithoutBlanks(call_out)
         = WithoutBlanks(KeysReplacedInLines(correction_map, SplitLines(call_in, 1), 1))

\* no whitespace-separated token of the line is classified as an error, and no
\* run of whole tokens, joined by single blanks, is a key of the map
NoErrorToken(words, cmap, line) ==
    LET tokens == SplitWs(line, 1)
    IN \A j \in 1..Len(tokens) : ~is_likely_error(words, cmap, tokens[j])
NoKeyOfWholeTokens(cmap, line) ==
    LET tokens == SplitWs(line, 1)
    IN \A a \in 1..Len(tokens) : \A b \in a..Len(tokens) :
          ~DictHas(cmap, JoinSpace(SubSeq(tokens, a, b), 1))

\* C30: the multi-word pass of correct_text rewrites whole tokens only.  A
\* line in which no token is classified as an error and no run of whole
\* tokens is a key of the map (as 'truth is' with the key 'th is') comes back
\* with its words unchanged: no two adjacent words are merged.
C30_WholeTokensOnly ==
    ( /\ op = "TextProcessor.correct_text"
      /\ ~Contains("\n", call_in)
      /\ NoErrorToken(common_words, correction_map, call_in)
      /\ NoKeyOfWholeTokens(correction_map, call_in) )
    => SplitWs(call_out, 1) = SplitWs(call_in, 1)

(***************************************************************************)
(*                     Claims about the verse indexer                      *)
(***************************************************************************)
\* page number p of the PDF is the only page whose text mentions the reference
OnlyPageWith(ref, p) ==
    /\ Contains(ref, pdf[p])
    /\ \A q \in 1..Len(pdf) : q # p => ~Contains(ref, pdf[q])

\* C2: after the index is built, for a verse whose marker and text are on page p
\* (as in the PDF whose page 2 is "2.47 Thou hast a right to perform thy duty"),
\* get_verse returns a record with that verse text and with page p.
C2_LookupReturnsVerseOfPage ==
    (op = "get_verse" /\ call_in = <<2, 47>>) =>
        \A p \in 1..Len(pdf) :
            (pdf[p] = ScenarioPage /\ OnlyPageWith("2.47", p)) =>
                /\ DictHas(verse_index, "2.47")
                /\ call_out.page = p
                /\ call_out.text \in { "Thou hast a right to perform thy duty", ScenarioPage }

\* C3: every record of the verse index has the page of the last page that
\* contains the marker of its key: the page stored contains the marker, and no
\* page after it does.
C3_LastMarkerPageWins ==
    pc = "done" =>
        \A n \in 1..Len(verse_index) :
            LET key == verse_index[n][1]
                record == verse_index[n][2]
            IN /\ Contains(key, pdf[record.page])
               /\ \A q \in (record.page + 1)..Len(pdf) : ~Contains(key, pdf[q])

\* the line the line loop is about to process is a verse boundary: the inline
\* 'TEXT ... Bg<chapter>.<verse>' idiom with both numbers, or a match of the
\* 'c.v' pattern
AtVerseBoundary ==
    /\ pc = "lines"
    /\ line_i < Len(lines)
    /\ LET line == lines[line_i + 1]
       IN IF IsTextBgLine(line)
          THEN TextBgParts(SplitWs(line, 1), 1, current_chapter, current_verse)[3]
          ELSE verse_pattern_search(line) # <<>>

\* C14: when a verse boundary is detected while a verse with accumulated text
\* is open, the step that processes the boundary line stores the open verse in
\* the index under its own chapter.verse key with its accumulated lines; the
\* lines are not discarded and not kept for another verse's key.
C14_OpenVerseSealedAtBoundary ==
    [][ ( /\ AtVerseBoundary
          /\ VerseOpen(current_chapter, current_verse, verse_text)
          /\ line_i' > line_i )
        => ( /\ DictHas(verse_index', VerseRef(current_chapter, current_verse))
             /\ DictGet(verse_index', VerseRef(current_chapter, current_verse)).text
                    = Strip(JoinSpace(verse_text, 1)) ) ]_vars

\* the pages after the front matter whose text is extracted and is long enough
\* to become a document
SubstantialPages(reader_pages) ==
    { j \in 1..Len(reader_pages) :
        /\ j > start_page
        /\ ~ExtractionFails(reader_pages[j])
        /\ Len(clean_text(reader_pages[j])) > MinDocumentLen }

\* C15: fault isolation.  Whatever page at or after the start offset fails to
\* give its text (extract_text raises, or yields no text),
\* load_and_process_pdf does not raise, and once it has returned every other
\* page with substantial content is in the document list.
C15_FaultIsolation ==
    /\ pc # "raised"
    /\ pc = "done" =>
          \A j \in SubstantialPages(pdf) :
              \E d \in 1..Len(documents) : documents[d].metadata.page = j

\* the decimal numeral of a positive integer, as f"{n}" writes it
IsPositiveNumeral(s) == IsDigits(s) /\ Ch(s, 1) # "0"

\* key is f"{chapter}.{verse}" for integers chapter >= 1 and verse >= 1
IsVerseKey(key) ==
    LET parts == SplitOn(key, ".")
    IN Len(parts) = 2 /\ IsPositiveNumeral(parts[1]) /\ IsPositiveNumeral(parts[2])

\* C16: at every moment during and after load_and_process_pdf, each key of the
\* verse index is 'c.v' for one pair of integers chapter >= 1 and verse >= 1,
\* whatever digits the page text holds.
C16_KeysArePositivePairs ==
    \A i \in 1..Len(verse_index) : IsVerseKey(verse_index[i][1])

\* the line is a verse boundary for the line loop, and the line is a label
IsBoundaryLine(line) == IsTextBgLine(line) \/ verse_pattern_search(line) # <<>>
IsLabelLine(line) == StartsWith(line, "TEXT") \/ StartsWith(line, "Bg")

\* the page opens a verse on its first line and goes on with lines of its text
OpensVerse(page) ==
    LET ls == PageLines(page)
    IN /\ ~ExtractionFails(page)
       /\ Len(ls) >= 2
       /\ ~IsTextBgLine(ls[1])
       /\ verse_pattern_search(ls[1]) # <<>>
       /\ \A j \in 2..Len(ls) : ~IsBoundaryLine(ls[j]) /\ ~IsLabelLine(ls[j])

\* the page has lines of text only: no boundary, no label
ContinuesVerse(page) ==
    LET ls == PageLines(page)
    IN /\ ~ExtractionFails(page)
       /\ ls # <<>>
       /\ \A j \in 1..Len(ls) : ~IsBoundaryLine(ls[j]) /\ ~IsLabelLine(ls[j])

\* C25: when the lines of a verse continue from a page p onto page p + 1
\* (here the last page of the PDF) before any other boundary, the record
\* finally stored for the verse has the lines gathered on page p followed by
\* the lines of page p + 1: the continuation extends the text, it does not
\* replace it.
C25_ContinuationExtendsVerse ==
    pc = "done" =>
        \A p \in (start_page + 1)..(Len(pdf) - 1) :
            ( /\ p + 1 = Len(pdf)
              /\ OpensVerse(pdf[p])
              /\ ContinuesVerse(pdf[p + 1]) )
            => LET ls == PageLines(pdf[p])
                   match == verse_pattern_search(ls[1])
                   key == VerseRef(IntOf(match[1]), IntOf(match[2]))
               IN /\ DictHas(verse_index, key)
                  /\ DictGet(verse_index, key).text
                        = Strip(JoinSpace(Tail(ls) \o PageLines(pdf[p + 1]), 1))

\* C26: no label leakage.  Every line gathered for a verse, the line that
\* directly follows a boundary marker included, is neither a boundary line nor
\* a line beginning with 'TEXT' or 'Bg', and so no stored verse text holds a
\* verse marker.
C26_NoLabelLeakage ==
    /\ \A j \in 1..Len(verse_text) :
          ~IsBoundaryLine(verse_text[j]) /\ ~IsLabelLine(verse_text[j])
    /\ \A n \in 1..Len(verse_index) :
          LET text == verse_index[n][2].text
          IN verse_pattern_search(text) = <<>> /\ ~IsLabelLine(text)

(***************************************************************************)
(*                   Claims about the document matcher                     *)
(***************************************************************************)
\* for the call the state holds: the positions of the documents that qualify (at
\* least two distinct query tokens longer than 2 characters occur in the
\* lowercased page text), and the score of the document at a position
RankQualifying ==
    { j \in 1..Len(documents) :
        term_matches(query_terms(call_in[1]), documents[j].page_content) >= 2 }
RankScore(j) ==
    Frac(term_matches(query_terms(call_in[1]), documents[j].page_content),
         Cardinality(query_terms(call_in[1])))
RankTopExceeds == \E j \in RankQualifying : FGt(RankScore(j), Frac(3, 10))
RankPosition(doc) == CHOOSE j \in 1..Len(documents) : documents[j] = doc
\* the document at position a is ranked ahead of the one at position b
RankedAhead(a, b) ==
    \/ FGt(RankScore(a), RankScore(b))
    \/ FEq(RankScore(a), RankScore(b)) /\ a < b

C5_TopKByScore ==
    (op = "rank" /\ RankTopExceeds) =>
        LET k == call_in[2]
            n == Cardinality(RankQualifying)
            returned == { RankPosition(call_out[i]) : i \in 1..Len(call_out) }
        IN /\ Len(call_out) = IF k <= n THEN k ELSE n
           /\ Len(call_out) <= k
           /\ returned \subseteq RankQualifying
           /\ \A i \in 1..Len(call_out) : \A i2 \in (i + 1)..Len(call_out) :
                RankedAhead(RankPosition(call_out[i]), RankPosition(call_out[i2]))
           /\ \A j \in RankQualifying \ returned : \A a \in returned : RankedAhead(a, j)

\* a ranked result with two documents of equal score, which is not in corpus order
C5_Witness ==
    /\ op = "rank"
    /\ RankTopExceeds
    /\ Len(call_out) = 3
    /\ FEq(RankScore(RankPosition(call_out[2])), RankScore(RankPosition(call_out[3])))
    /\ RankPosition(call_out[1]) > RankPosition(call_out[2])

\* C17: get_relevant_documents lets no error cross its boundary: for every
\* query, every k and every document list, the empty list included, the call
\* returns a (possibly empty) sequence of documents and does not raise.
C17_RankNeverRaises ==
    op # "raised"

\* the distinct whitespace-separated tokens of the query that are longer than
\* 2 characters
LongTokens(query) ==
    LET tokens == SplitWs(query, 1)
    IN { tokens[j] : j \in { n \in 1..Len(tokens) : Len(tokens[n]) > 2 } }

\* C29: get_relevant_documents with a query of fewer than two distinct tokens
\* longer than 2 characters (a one-word query, a query of short words, the
\* empty query) never gives a ranked result: whatever the documents are, the
\* call returns the slice documents[len // 2 : len // 2 + k].
C29_FewTokensGiveMiddleSlice ==
    (op \in {"rank", "raised"} /\ Cardinality(LongTokens(call_in[1])) < 2) =>
        LET mid == Len(documents) \div 2
            last == IF mid + call_in[2] <= Len(documents) THEN mid + call_in[2] ELSE Len(documents)
        IN /\ op = "rank"
           /\ call_out = SubSeq(documents, mid + 1, last)

(***************************************************************************)
(*                       Claims about answer_question                      *)
(***************************************************************************)
\* the entries of the verse index whose chapter.verse reference the question
\* contains (the correction of names leaves digits as they are)
ReferencedVerses == { n \in 1..Len(verse_index) : Contains(verse_index[n][1], call_in) }

\* C1: when the question contains a chapter.verse reference that is in the verse
\* index, answer_question returns the verse-lookup response: the answer carries
\* the indexed verse text and the sources are the verse's page; the answer
\* matched from the documents is returned only when no indexed verse is
\* referenced.  (Stated for a system that has documents loaded.)
C1_IndexedVerseIsAnswered ==
    (op = "answer_question" /\ documents # <<>>) =>
        \A n \in ReferencedVerses :
            /\ Contains(verse_index[n][2].text, call_out.answer)
            /\ call_out.sources = << [page |-> verse_index[n][2].page, source |-> pdf_path] >>
            /\ ~("source_type" \in DOMAIN call_out /\ call_out.source_type = "pdf_content")

\* C18: answer_question is total.  For every question string (empty, blank,
\* with or without a verse reference) and every state of the index (no
\* documents and no verses included) the call returns a response that has an
\* answer, a list of sources and a confidence between 0 and 1; errors inside
\* (the ValueError of get_relevant_documents) are turned into such a response.
C18_AnswerQuestionTotal ==
    op = "answer_question" =>
        /\ {"answer", "sources", "confidence"} \subseteq DOMAIN call_out
        /\ FGe(call_out.confidence, FZero)
        /\ FLe(call_out.confidence, FOne)

\* a question asked of a system without documents and without verses: the
\* error of the document search has become a response of confidence 0
C18_Witness ==
    /\ op = "answer_question"
    /\ documents = <<>>
    /\ verse_index = <<>>
    /\ Strip(call_in) # ""
    /\ call_out = ErrorResponse(NoDocumentsError)

\* the chapter.verse pairs the question of the call names in digits (the first
\* three patterns of _check_for_verse_reference) that the verse index lacks
MissingReferences ==
    LET matches == verse_patterns(Lower(Strip(call_in)))
    IN { MatchNumbers(matches[n]) : n \in { k \in 1..3 : matches[k] # <<>> } }
       \ ( {<<>>} \cup { r \in Nat \X Nat : DictHas(verse_index, VerseRef(<<r[1]>>, <<r[2]>>)) } )

\* the confidence of the 'could not find the specific verse reference' reply
LowConfidence == Frac(3, 10)

\* C19: when the question references a chapter.verse that is not in the verse
\* index, get_verse gives None for it and answer_question returns a response
\* of confidence 0.3 or less, never a confident content answer.
C19_MissingVerseLowConfidence ==
    (op = "answer_question" /\ check_for_verse_reference(verse_index, Strip(call_in)) = <<>>) =>
        \A r \in MissingReferences :
            /\ get_verse(verse_index, r[1], r[2]) = None
            /\ FLe(call_out.confidence, LowConfidence)

(***************************************************************************)
(*                 Claims about the state after start-up                   *)
(***************************************************************************)
\* C20: after initialization the state is read-only.  Every call of
\* answer_question, get_relevant_documents, get_verse,
\* TextProcessor.correct_text and correct_name, and of correct_text of the
\* name corrector inside answer_question, leaves the verse index, the
\* document list (contents and metadata), the correction map and the word
\* list as they were.
C20_ReadOnlyAfterInit ==
    [][ pc = "done" =>
          /\ verse_index' = verse_index
          /\ documents' = documents
          /\ correction_map' = correction_map
          /\ common_words' = common_words ]_vars

\* a ranking call has returned documents of a system whose index, document
\* list and correction map all hold entries
C20_Witness ==
    /\ op = "rank"
    /\ call_out # <<>>
    /\ Len(documents) > 1
    /\ verse_index # <<>>
    /\ correction_map # <<>>

====
